---- MODULE Spec2Model ----
(***************************************************************************)
(* Model of the documentation scoring pipeline: the four analyzers         *)
(* (readability, structure, completeness, style) and the aggregator of     *)
(* backend/analyzer/.  A scraped page is represented by the counts the     *)
(* analyzers extract from it (word counts, keyword counts, heading levels, *)
(* ...); every formula on those counts is the one of the source.           *)
(*                                                                         *)
(* Numbers: a score is kept in tenths (87 is 8.7), a Flesch or grade value *)
(* in tenths, a percentage in hundredths.  round(x, 1) is RoundDiv: the    *)
(* nearest tenth; at a decimal tie (x.x5) the binary double decides the    *)
(* direction, which is an input `up` of the operator.                      *)
(***************************************************************************)
EXTENDS Integers, Sequences, FiniteSets, TLC

\* ------------------------------------------------------------------ bounds
MaxHeadings == 3
MaxParagraphs == 2
MaxItems == 2
MaxOutline == 5

\* ------------------------------------------------------------- arithmetic
Max(a, b) == IF a >= b THEN a ELSE b
Min(a, b) == IF a <= b THEN a ELSE b
Clamp(lo, hi, x) == Max(lo, Min(hi, x))

\* round(num / den) to the nearest integer, den > 0; `up` is the direction
\* the floating-point value falls at an exact decimal tie.
RoundDiv(num, den, up) ==
    LET q == num \div den
        r == num % den
    IN  IF 2 * r < den THEN q
        ELSE IF 2 * r > den THEN q + 1
        ELSE IF up THEN q + 1 ELSE q

\* round(num / den) when the double is exact: a tie goes to the even neighbour
RoundHalfEven(num, den) == RoundDiv(num, den, (num \div den) % 2 = 1)

RECURSIVE SumSeq(_)
SumSeq(s) == IF s = <<>> THEN 0 ELSE Head(s) + SumSeq(Tail(s))

\* sum(1 for x in s if P(x))
CountSeq(s, P(_)) == Cardinality({i \in 1..Len(s) : P(s[i])})

SeqRange(s) == {s[i] : i \in 1..Len(s)}

FirstN(s, n) == SubSeq(s, 1, Min(n, Len(s)))
LastN(s, n) == SubSeq(s, Max(1, Len(s) - n + 1), Len(s))

\* list.append when the condition holds
AppendIf(s, cond, msg) == IF cond THEN Append(s, msg) ELSE s

\* an exception raised inside an analyzer, carried to its except clause
Raise(msg) == [raise |-> msg]
Raised(x) == "raise" \in DOMAIN x

\* -------------------------------------------------- the LLM collaborator
LLMOutcomes == {"text", "raise"}
LLMText == "critique"

\* ------------------------------------------------- readability analyzer
ReadabilityLLMFallback == "Unable to perform marketer-specific analysis due to API error"
ReadabilityFailureSuggestion == "Unable to analyze readability due to processing error"

\* _calculate_basic_metrics: counts come from textstat, which may raise
CalculateBasicMetrics(d, up) ==
    IF "sentence_count" \in d.tsFail THEN Raise("textstat error")
    ELSE [word_count |-> d.tsWords,
          sentence_count |-> d.tsSentences,
          syllable_count |-> d.tsSyllables,
          avg_sentence_length |->
              IF d.tsSentences > 0
              THEN RoundDiv(10 * d.tsWords, d.tsSentences, up) ELSE 0,
          avg_syllables_per_word |->
              IF d.tsWords > 0
              THEN RoundDiv(100 * d.tsSyllables, d.tsWords, up) ELSE 0,
          character_count |-> d.chars,
          paragraph_count |-> Len(d.contentParas)]

ZeroIndices ==
    [flesch_reading_ease |-> 0, flesch_kincaid_grade |-> 0, gunning_fog |-> 0,
     coleman_liau |-> 0, automated_readability |-> 0, smog_index |-> 0]

\* _calculate_readability_scores: one try block around the six indices
CalculateReadabilityScores(d) ==
    IF d.tsFail \cap {"flesch_reading_ease", "flesch_kincaid_grade",
                      "gunning_fog", "coleman_liau_index",
                      "automated_readability_index", "smog_index"} # {}
    THEN ZeroIndices
    ELSE [flesch_reading_ease |-> d.flesch,
          flesch_kincaid_grade |-> d.grade,
          gunning_fog |-> d.fog,
          coleman_liau |-> d.coleman,
          automated_readability |-> d.ari,
          smog_index |-> d.smog]

\* _determine_complexity_level(tech_density, jargon_count); tech_density is
\* the fraction tech_term_count / words, passed as num / den
DetermineComplexityLevel(num, den, jargon) ==
    IF num > 5 * den \/ jargon > 20 THEN "Very High"
    ELSE IF num > 3 * den \/ jargon > 10 THEN "High"
    ELSE IF num > den \/ jargon > 5 THEN "Moderate"
    ELSE "Low"

\* _analyze_technical_complexity; density percentage in hundredths
AnalyzeTechnicalComplexity(d, up) ==
    LET num == IF d.words > 0 THEN d.techTerms ELSE 0
        den == IF d.words > 0 THEN d.words ELSE 1
    IN  [technical_term_count |-> d.techTerms,
         technical_term_density |-> RoundDiv(10000 * num, den, up),
         jargon_count |-> d.jargon,
         complexity_level |-> DetermineComplexityLevel(num, den, d.jargon)]

\* _analyze_for_marketers: one call, failure captured as text
AnalyzeForMarketers(llm) ==
    IF llm = "text" THEN LLMText ELSE ReadabilityLLMFallback

\* the readability suggestions with the jargon check made first
GenerateReadabilitySuggestionsJargonFirst(bm, rs, ca) ==
    LET s1 == IF bm.avg_sentence_length > 250 THEN <<"sentence_length_gt_25">>
              ELSE IF bm.avg_sentence_length > 200 THEN <<"sentence_length_gt_20">>
              ELSE <<>>
        s2 == IF rs.flesch_reading_ease < 300 THEN <<"flesch_lt_30">>
              ELSE IF rs.flesch_reading_ease < 500 THEN <<"flesch_lt_50">>
              ELSE IF rs.flesch_reading_ease < 600 THEN <<"flesch_lt_60">>
              ELSE <<>>
        s3 == IF rs.flesch_kincaid_grade > 120 THEN <<"grade_gt_12">>
              ELSE IF rs.flesch_kincaid_grade > 100 THEN <<"grade_gt_10">>
              ELSE <<>>
        s4 == IF ca.technical_term_density > 500 THEN <<"tech_density_gt_5">>
              ELSE IF ca.technical_term_density > 300 THEN <<"tech_density_gt_3">>
              ELSE <<>>
        s5 == IF ca.jargon_count > 10 THEN <<"jargon_gt_10">> ELSE <<>>
        s6 == IF bm.avg_syllables_per_word > 170 THEN <<"syllables_gt_1_7">> ELSE <<>>
    IN  s5 \o s1 \o s2 \o s3 \o s4 \o s6

\* _generate_readability_suggestions
GenerateReadabilitySuggestions(bm, rs, ca) ==
    LET s1 == IF bm.avg_sentence_length > 250 THEN <<"sentence_length_gt_25">>
              ELSE IF bm.avg_sentence_length > 200 THEN <<"sentence_length_gt_20">>
              ELSE <<>>
        s2 == IF rs.flesch_reading_ease < 300 THEN <<"flesch_lt_30">>
              ELSE IF rs.flesch_reading_ease < 500 THEN <<"flesch_lt_50">>
              ELSE IF rs.flesch_reading_ease < 600 THEN <<"flesch_lt_60">>
              ELSE <<>>
        s3 == IF rs.flesch_kincaid_grade > 120 THEN <<"grade_gt_12">>
              ELSE IF rs.flesch_kincaid_grade > 100 THEN <<"grade_gt_10">>
              ELSE <<>>
        s4 == IF ca.technical_term_density > 500 THEN <<"tech_density_gt_5">>
              ELSE IF ca.technical_term_density > 300 THEN <<"tech_density_gt_3">>
              ELSE <<>>
        s5 == IF ca.jargon_count > 10 THEN <<"jargon_gt_10">> ELSE <<>>
        s6 == IF bm.avg_syllables_per_word > 170 THEN <<"syllables_gt_1_7">> ELSE <<>>
    IN  s1 \o s2 \o s3 \o s4 \o s5 \o s6

\* the readability score with the technical-density penalty added on
CalculateReadabilityScoreTechBonus(rs, ca, up) ==
    LET flesch_normalized == Clamp(0, 1000, rs.flesch_reading_ease)
        grade_penalty == Max(0, rs.flesch_kincaid_grade - 80)
        tech_penalty == ca.technical_term_density
    IN  Clamp(0, 100,
              RoundDiv(10 * flesch_normalized - 50 * grade_penalty
                         + 3 * tech_penalty, 100, up))

\* _calculate_readability_score, in tenths: flesch/10 clamped, minus
\* max(0, (grade - 8) * 0.5), minus density * 0.3; clamped to [0, 10]
CalculateReadabilityScore(rs, ca, up) ==
    LET flesch_normalized == Clamp(0, 1000, rs.flesch_reading_ease)
        grade_penalty == Max(0, rs.flesch_kincaid_grade - 80)
        tech_penalty == ca.technical_term_density
    IN  Clamp(0, 100,
              RoundDiv(10 * flesch_normalized - 50 * grade_penalty
                         - 3 * tech_penalty, 100, up))

\* _generate_readability_summary
GenerateReadabilitySummary(score) ==
    IF score >= 80 THEN <<"Excellent readability", score>>
    ELSE IF score >= 60 THEN <<"Good readability", score>>
    ELSE IF score >= 40 THEN <<"Moderate readability", score>>
    ELSE <<"Poor readability", score>>

\* a failure result that leaves the score out
FailureResultNoScore(msg, suggestion) ==
    [error |-> msg, suggestions |-> <<suggestion>>]

\* the result an analyzer's except clause returns
FailureResult(msg, suggestion) ==
    [score |-> 0, error |-> msg, suggestions |-> <<suggestion>>]

\* ReadabilityAnalyzer.analyze
ReadabilityAnalyze(d, llm, up) ==
    LET bm == CalculateBasicMetrics(d, up)
        rs == CalculateReadabilityScores(d)
        ca == AnalyzeTechnicalComplexity(d, up)
        score == CalculateReadabilityScore(rs, ca, up)
    IN  IF Raised(bm)
        THEN FailureResult(bm.raise, ReadabilityFailureSuggestion)
        ELSE [score |-> score,
              basic_metrics |-> bm,
              readability_scores |-> rs,
              complexity_analysis |-> ca,
              marketer_analysis |-> AnalyzeForMarketers(llm),
              suggestions |-> GenerateReadabilitySuggestions(bm, rs, ca),
              summary |-> GenerateReadabilitySummary(score)]

\* --------------------------------------------------- structure analyzer
StructureLLMFallback == "Unable to perform LLM-based structure analysis due to API error"
StructureFailureSuggestion == "Unable to analyze structure due to processing error"

\* heading texts of the model, their word counts and the terms they contain
HeadingTexts == {"", "Overview", "Summary", "Setup guide"}
TextWordCount(t) == IF t = "" THEN 0 ELSE IF t = "Setup guide" THEN 2 ELSE 1
IntroTexts == {"Overview"}
ConclusionTexts == {"Summary"}

Levels(headings) == [i \in 1..Len(headings) |-> headings[i].level]

\* sorted(set(levels))
RECURSIVE SortedSeq(_)
SortedSeq(S) ==
    IF S = {} THEN <<>>
    ELSE LET m == CHOOSE x \in S : \A y \in S : x <= y
         IN  <<m>> \o SortedSeq(S \ {m})

\* gap detection that takes every pair of adjacent used levels for a gap
HierarchyGapsAnyStep(unique_levels) ==
    LET idx == {i \in 1..(Len(unique_levels) - 1) :
                    unique_levels[i + 1] - unique_levels[i] >= 1}
        ord == SortedSeq(idx)
    IN  [k \in 1..Len(ord) |-> <<unique_levels[ord[k]], unique_levels[ord[k] + 1]>>]

\* the (lower, upper) pairs of adjacent used levels more than 1 apart
HierarchyGaps(unique_levels) ==
    LET idx == {i \in 1..(Len(unique_levels) - 1) :
                    unique_levels[i + 1] - unique_levels[i] > 1}
        ord == SortedSeq(idx)
    IN  [k \in 1..Len(ord) |-> <<unique_levels[ord[k]], unique_levels[ord[k] + 1]>>]

MinOfSet(S) == CHOOSE x \in S : \A y \in S : x <= y

RECURSIVE MaxOfSeq(_)
MaxOfSeq(s) == IF s = <<>> THEN 0 ELSE Max(Head(s), MaxOfSeq(Tail(s)))

\* the hierarchy score with a penalty of 1 for each gap
CalculateHierarchyScoreLightGaps(levels, gaps) ==
    IF levels = <<>> THEN 0
    ELSE LET unique_levels == Cardinality(SeqRange(levels))
             base == 50
             h1 == IF MinOfSet(SeqRange(levels)) = 1 THEN 20 ELSE 0
             gap_penalty == Len(gaps) * 10
             spread == IF 2 <= unique_levels /\ unique_levels <= 4 THEN 20
                       ELSE IF unique_levels > 4 THEN -10 ELSE 0
         IN  Clamp(0, 100, base + h1 - gap_penalty + spread)

\* _calculate_hierarchy_score, in tenths
CalculateHierarchyScore(levels, gaps) ==
    IF levels = <<>> THEN 0
    ELSE LET unique_levels == Cardinality(SeqRange(levels))
             base == 50
             h1 == IF MinOfSet(SeqRange(levels)) = 1 THEN 20 ELSE 0
             gap_penalty == Len(gaps) * 15
             spread == IF 2 <= unique_levels /\ unique_levels <= 4 THEN 20
                       ELSE IF unique_levels > 4 THEN -10 ELSE 0
         IN  Clamp(0, 100, base + h1 - gap_penalty + spread)

\* _analyze_headings
AnalyzeHeadings(headings) ==
    IF headings = <<>>
    THEN [total_headings |-> 0, levels_used |-> <<>>, hierarchy_score |-> 0,
          has_gaps |-> TRUE, max_gap |-> 0, distribution |-> <<>>]
    ELSE LET levels == Levels(headings)
             unique_levels == SortedSeq(SeqRange(levels))
             gaps == HierarchyGaps(unique_levels)
             max_gap == MaxOfSeq([k \in 1..Len(gaps) |-> gaps[k][2] - gaps[k][1]])
             used == {l \in 1..6 : \E i \in 1..Len(headings) : headings[i].level = l}
             distribution ==
                 [l \in used |-> Cardinality({i \in 1..Len(headings) : headings[i].level = l})]
             heading_words ==
                 SumSeq([i \in 1..Len(headings) |-> TextWordCount(headings[i].text)])
         IN  IF heading_words = 0 THEN Raise("float division by zero")
             ELSE [total_headings |-> Len(headings),
                   levels_used |-> unique_levels,
                   hierarchy_score |-> CalculateHierarchyScore(levels, gaps),
                   has_gaps |-> Len(gaps) > 0,
                   max_gap |-> max_gap,
                   gaps |-> gaps,
                   distribution |-> distribution,
                   headings_per_1000_words |-> <<1000 * Len(headings), heading_words>>]

\* _analyze_paragraphs; a paragraph is its word count, avg_length in tenths
AnalyzeParagraphs(paragraphs, contentParas, up) ==
    LET paras == IF paragraphs = <<>> THEN contentParas ELSE paragraphs
    IN  IF paras = <<>>
        THEN [total_paragraphs |-> 0, avg_length |-> 0, length_distribution |-> <<>>,
              long_paragraphs |-> 0, short_paragraphs |-> 0]
        ELSE LET short_paragraphs == CountSeq(paras, LAMBDA c : c < 20)
                 medium_paragraphs == CountSeq(paras, LAMBDA c : 20 <= c /\ c <= 100)
                 long_paragraphs == CountSeq(paras, LAMBDA c : c > 100)
                 very_long_paragraphs == CountSeq(paras, LAMBDA c : c > 200)
             IN  [total_paragraphs |-> Len(paras),
                  avg_length |-> RoundDiv(10 * SumSeq(paras), Len(paras), up),
                  length_distribution |->
                      [short |-> short_paragraphs, medium |-> medium_paragraphs,
                       long |-> long_paragraphs, very_long |-> very_long_paragraphs],
                  long_paragraphs |-> long_paragraphs,
                  short_paragraphs |-> short_paragraphs,
                  word_counts |-> paras]

\* _analyze_heading_flow, in tenths
AnalyzeHeadingFlow(headings) ==
    IF Len(headings) < 2 THEN 50
    ELSE LET levels == Levels(headings)
             many == IF Cardinality(SeqRange(levels)) > 4 THEN 10 ELSE 0
             jumps == Cardinality({i \in 1..(Len(levels) - 1) :
                          (levels[i + 1] - levels[i] > 2) \/ (levels[i] - levels[i + 1] > 2)})
         IN  Clamp(0, 100, 70 - many - 5 * jumps)

\* _determine_flow_quality
DetermineFlowQuality(transition_count, has_steps, heading_flow_score) ==
    LET score == Clamp(0, 100, heading_flow_score
                                 + (IF transition_count > 5 THEN 10 ELSE 0)
                                 + (IF has_steps THEN 10 ELSE 0))
    IN  IF score >= 80 THEN "Excellent"
        ELSE IF score >= 60 THEN "Good"
        ELSE IF score >= 40 THEN "Fair"
        ELSE "Poor"

\* _analyze_information_flow
AnalyzeInformationFlow(d) ==
    LET heading_flow_score == AnalyzeHeadingFlow(d.headings)
    IN  [transition_word_count |-> d.transitions,
         has_clear_steps |-> d.stepMarkers,
         heading_flow_score |-> heading_flow_score,
         flow_quality |-> DetermineFlowQuality(d.transitions, d.stepMarkers, heading_flow_score)]

\* _has_introduction / _has_conclusion
\* an introduction looked for among all the headings
HasIntroductionAnywhere(headings) ==
    \E i \in 1..Len(headings) : headings[i].text \in IntroTexts

HasIntroduction(headings) ==
    \E i \in 1..Len(FirstN(headings, 3)) : headings[i].text \in IntroTexts
HasConclusion(headings) ==
    \E h \in SeqRange(LastN(headings, 3)) : h.text \in ConclusionTexts

\* _calculate_organization_score, in tenths
CalculateOrganizationScore(has_intro, has_conclusion, list_count, heading_count) ==
    Clamp(0, 100, 50 + (IF has_intro THEN 15 ELSE 0)
                     + (IF has_conclusion THEN 15 ELSE 0)
                     + (IF list_count > 0 THEN 10 ELSE 0)
                     + (IF heading_count >= 3 THEN 10 ELSE 0)
                     + (IF heading_count >= 5 THEN 5 ELSE 0))

\* _analyze_organization
AnalyzeOrganization(headings, lists, paragraphs) ==
    LET has_intro == HasIntroduction(headings)
        has_conclusion == HasConclusion(headings)
    IN  [total_content_blocks |-> Len(headings) + Len(lists) + Len(paragraphs),
         has_introduction |-> has_intro,
         has_conclusion |-> has_conclusion,
         list_analysis |->
             [total_lists |-> Len(lists),
              unordered_lists |-> CountSeq(lists, LAMBDA l : l.type = "unordered"),
              ordered_lists |-> CountSeq(lists, LAMBDA l : l.type = "ordered"),
              avg_items_per_list |->
                  IF lists # <<>>
                  THEN <<SumSeq([i \in 1..Len(lists) |-> lists[i].item_count]), Len(lists)>>
                  ELSE <<0, 1>>],
         organization_score |->
             CalculateOrganizationScore(has_intro, has_conclusion, Len(lists), Len(headings))]

\* _analyze_structure_with_llm
AnalyzeStructureWithLLM(llm) ==
    IF llm = "text" THEN LLMText ELSE StructureLLMFallback

\* _generate_structure_suggestions, the returned list as [list |-> ...];
\* long_paras / total_paras divides by the reported total_paragraphs
GenerateStructureSuggestions(ha, pa, oa) ==
    IF pa.total_paragraphs = 0 THEN Raise("division by zero")
    ELSE LET s1 == AppendIf(<<>>, ha.total_headings < 3, "add_more_headings")
             s2 == AppendIf(s1, ha.has_gaps, "fix_hierarchy_gaps")
             s3 == AppendIf(s2, ha.max_gap > 2, "avoid_skipping_levels")
             s4 == AppendIf(s3, pa.avg_length > 1200, "shorten_paragraphs")
             s5 == AppendIf(s4, 10 * pa.long_paragraphs > 3 * pa.total_paragraphs,
                            "many_long_paragraphs")
             s6 == AppendIf(s5, ~oa.has_introduction, "add_introduction")
             s7 == AppendIf(s6, ~oa.has_conclusion, "add_conclusion")
         IN  [list |-> AppendIf(s7, oa.list_analysis.total_lists = 0, "use_lists")]

\* _calculate_structure_score, in tenths
CalculateStructureScore(ha, pa, oa, up) ==
    LET para_score == IF pa.avg_length > 1500 THEN 5
                      ELSE IF pa.avg_length > 1000 THEN 6 ELSE 7
    IN  Clamp(0, 100, RoundDiv(3 * ha.hierarchy_score + 3 * oa.organization_score
                                 + 40 * para_score, 10, up))

\* _generate_structure_summary
GenerateStructureSummary(score) ==
    IF score >= 80 THEN <<"Excellent document structure", score>>
    ELSE IF score >= 60 THEN <<"Good structure", score>>
    ELSE IF score >= 40 THEN <<"Adequate structure", score>>
    ELSE <<"Poor structure", score>>

\* the structure analyzer without the try / except around its pipeline
StructureAnalyzeNoCatch(d, llm, up) ==
    LET ha == AnalyzeHeadings(d.headings)
        pa == AnalyzeParagraphs(d.paragraphs, d.contentParas, up)
        fa == AnalyzeInformationFlow(d)
        oa == AnalyzeOrganization(d.headings, d.lists, d.paragraphs)
        suggestions == GenerateStructureSuggestions(ha, pa, oa)
        score == CalculateStructureScore(ha, pa, oa, up)
    IN  IF Raised(ha) THEN ha
        ELSE IF Raised(suggestions) THEN suggestions
        ELSE [score |-> score,
              heading_analysis |-> ha,
              paragraph_analysis |-> pa,
              flow_analysis |-> fa,
              organization_analysis |-> oa,
              llm_analysis |-> AnalyzeStructureWithLLM(llm),
              suggestions |-> suggestions.list,
              summary |-> GenerateStructureSummary(score)]

\* StructureAnalyzer.analyze
StructureAnalyze(d, llm, up) ==
    LET ha == AnalyzeHeadings(d.headings)
        pa == AnalyzeParagraphs(d.paragraphs, d.contentParas, up)
        fa == AnalyzeInformationFlow(d)
        oa == AnalyzeOrganization(d.headings, d.lists, d.paragraphs)
        suggestions == GenerateStructureSuggestions(ha, pa, oa)
        score == CalculateStructureScore(ha, pa, oa, up)
    IN  IF Raised(ha) THEN FailureResult(ha.raise, StructureFailureSuggestion)
        ELSE IF Raised(suggestions)
        THEN FailureResult(suggestions.raise, StructureFailureSuggestion)
        ELSE [score |-> score,
              heading_analysis |-> ha,
              paragraph_analysis |-> pa,
              flow_analysis |-> fa,
              organization_analysis |-> oa,
              llm_analysis |-> AnalyzeStructureWithLLM(llm),
              suggestions |-> suggestions.list,
              summary |-> GenerateStructureSummary(score)]

\* ------------------------------------------------ completeness analyzer
CompletenessLLMFallback == "Unable to perform LLM-based completeness analysis due to API error"
CompletenessFailureSuggestion == "Unable to analyze completeness due to processing error"

\* alt attributes of the model; NoAlt is an image whose 'alt' is None
NoAlt == "None"
AltTexts == {"", "logo", "architecture diagram", NoAlt}
AltLen(a) == IF a = "" THEN 0 ELSE IF a = "logo" THEN 4 ELSE 20

BoolToInt(b) == IF b THEN 1 ELSE 0

\* _determine_example_quality
DetermineExampleQuality(example_mentions, code_blocks, images) ==
    LET variety_count == BoolToInt(example_mentions > 0) + BoolToInt(Len(code_blocks) > 0)
                           + BoolToInt(Len(images) > 0)
    IN  Min(10, (IF example_mentions > 0 THEN 2 ELSE 0)
                + (IF example_mentions > 2 THEN 1 ELSE 0)
                + (IF Len(code_blocks) > 0 THEN 3 ELSE 0)
                + (IF Len(code_blocks) > 2 THEN 1 ELSE 0)
                + (IF Len(images) > 0 THEN 2 ELSE 0)
                + (IF variety_count >= 2 THEN 1 ELSE 0)
                + (IF variety_count = 3 THEN 1 ELSE 0))

\* _analyze_examples
AnalyzeExamples(d) ==
    [example_mentions |-> d.exampleMentions,
     code_examples |->
         [total_code_blocks |-> Len(d.codeBlocks),
          inline_code |-> CountSeq(d.codeBlocks, LAMBDA cb : cb.type = "inline"),
          block_code |-> CountSeq(d.codeBlocks, LAMBDA cb : cb.type = "block"),
          has_code_examples |-> Len(d.codeBlocks) > 0],
     visual_examples |->
         [total_images |-> Len(d.images),
          images_with_alt |-> CountSeq(d.images, LAMBDA a : a # "" /\ a # NoAlt),
          has_visual_examples |-> Len(d.images) > 0],
     example_quality |-> DetermineExampleQuality(d.exampleMentions, d.codeBlocks, d.images),
     has_practical_examples |-> d.exampleMentions > 0 \/ Len(d.codeBlocks) > 0]

\* _analyze_instructions; instruction_density is the fraction <<num, den>>
AnalyzeInstructions(d) ==
    [instruction_word_count |-> d.instructionCount,
     step_indicators |-> d.stepIndicators,
     has_clear_steps |-> d.stepIndicators > 2,
     procedural_lists |-> CountSeq(d.lists, LAMBDA l : l.type = "ordered"),
     instruction_density |->
         IF d.words > 0 THEN <<d.instructionCount, d.words>> ELSE <<0, 1>>]

\* _calculate_information_richness, the fraction <<num, den>>
CalculateInformationRichness(depth_indicators, explanations, prerequisites, troubleshooting, word_count) ==
    IF word_count = 0 THEN <<0, 1>>
    ELSE LET score == Min(3 * word_count, 1000 * depth_indicators)
                        + Min(2 * word_count, 1000 * explanations)
                        + (IF prerequisites > 0 THEN 2 * word_count ELSE 0)
                        + (IF troubleshooting > 0 THEN 2 * word_count ELSE 0)
                        + (IF word_count > 500 THEN word_count ELSE 0)
         IN  <<Min(10 * word_count, score), word_count>>

\* _analyze_information_depth
AnalyzeInformationDepth(d) ==
    [depth_indicators |-> d.depthIndicators,
     explanations |-> d.explanations,
     has_prerequisites |-> d.prerequisites > 0,
     has_troubleshooting |-> d.troubleshooting > 0,
     information_richness |->
         CalculateInformationRichness(d.depthIndicators, d.explanations,
                                      d.prerequisites, d.troubleshooting, d.words)]

\* _check_code_comments
CheckCodeComments(code_blocks) ==
    \E cb \in SeqRange(code_blocks) : cb.commented

\* support quality without its base score of 5
CalculateSupportQualityNoBase(code_support, visual_support, reference_support) ==
    Min(100, (IF code_support.has_code_examples THEN 15 ELSE 0)
             + (IF code_support.well_commented_code THEN 5 ELSE 0)
             + (IF visual_support.has_images THEN 15 ELSE 0)
             + (IF visual_support.descriptive_images > 0 THEN 5 ELSE 0)
             + (IF reference_support.has_references THEN 10 ELSE 0)
             + (IF reference_support.external_links > 0 THEN 5 ELSE 0))

\* _calculate_support_quality, in tenths
CalculateSupportQuality(code_support, visual_support, reference_support) ==
    Min(100, 50 + (IF code_support.has_code_examples THEN 15 ELSE 0)
                + (IF code_support.well_commented_code THEN 5 ELSE 0)
                + (IF visual_support.has_images THEN 15 ELSE 0)
                + (IF visual_support.descriptive_images > 0 THEN 5 ELSE 0)
                + (IF reference_support.has_references THEN 10 ELSE 0)
                + (IF reference_support.external_links > 0 THEN 5 ELSE 0))

\* _analyze_supporting_materials; len(img.get('alt', '')) raises on None
AnalyzeSupportingMaterials(code_blocks, images, links) ==
    IF NoAlt \in SeqRange(images)
    THEN Raise("object of type 'NoneType' has no len()")
    ELSE LET code_support ==
                 [has_code_examples |-> Len(code_blocks) > 0,
                  code_variety |-> Cardinality({cb.language : cb \in SeqRange(code_blocks)}),
                  well_commented_code |-> CheckCodeComments(code_blocks)]
             visual_support ==
                 [has_images |-> Len(images) > 0,
                  images_per_1000_words |-> <<Len(images), 1000>>,
                  descriptive_images |-> CountSeq(images, LAMBDA a : AltLen(a) > 10)]
             reference_support ==
                 [total_links |-> Len(links),
                  external_links |-> CountSeq(links, LAMBDA e : e),
                  internal_links |-> CountSeq(links, LAMBDA e : ~e),
                  has_references |-> Len(links) > 0]
         IN  [code_support |-> code_support,
              visual_support |-> visual_support,
              reference_support |-> reference_support,
              overall_support_quality |->
                  CalculateSupportQuality(code_support, visual_support, reference_support)]

\* _analyze_completeness_with_llm
AnalyzeCompletenessWithLLM(llm) ==
    IF llm = "text" THEN LLMText ELSE CompletenessLLMFallback

\* _seems_technical_content: instruction_density > 0.01
SeemsTechnicalContent(ia) ==
    100 * ia.instruction_density[1] > ia.instruction_density[2]

\* the completeness suggestions asking for screenshots below two images
GenerateCompletenessSuggestionsFewImages(ea, ia, da, sa) ==
    LET s1 == IF ~ea.has_practical_examples THEN <<"add_practical_examples">>
              ELSE IF ea.example_mentions < 2 THEN <<"more_diverse_examples">>
              ELSE <<>>
        s2 == AppendIf(s1, ~ea.code_examples.has_code_examples /\ SeemsTechnicalContent(ia),
                       "add_code_examples")
        s3 == AppendIf(s2, ~ia.has_clear_steps, "clear_steps")
        s4 == AppendIf(s3, 100 * ia.instruction_density[1] < 2 * ia.instruction_density[2],
                       "more_instructions")
        s5 == AppendIf(s4, ~da.has_prerequisites, "state_prerequisites")
        s6 == AppendIf(s5, ~da.has_troubleshooting, "add_troubleshooting")
        s7 == AppendIf(s6, da.information_richness[1] < 5 * da.information_richness[2],
                       "more_detail")
        s8 == AppendIf(s7, ~sa.code_support.has_code_examples /\ SeemsTechnicalContent(ia),
                       "include_code_examples")
        s9 == AppendIf(s8, sa.visual_support.images_per_1000_words[1] < 2, "add_screenshots")
    IN  AppendIf(s9, ~sa.reference_support.has_references, "include_links")

\* _generate_completeness_suggestions
GenerateCompletenessSuggestions(ea, ia, da, sa) ==
    LET s1 == IF ~ea.has_practical_examples THEN <<"add_practical_examples">>
              ELSE IF ea.example_mentions < 2 THEN <<"more_diverse_examples">>
              ELSE <<>>
        s2 == AppendIf(s1, ~ea.code_examples.has_code_examples /\ SeemsTechnicalContent(ia),
                       "add_code_examples")
        s3 == AppendIf(s2, ~ia.has_clear_steps, "clear_steps")
        s4 == AppendIf(s3, 100 * ia.instruction_density[1] < 2 * ia.instruction_density[2],
                       "more_instructions")
        s5 == AppendIf(s4, ~da.has_prerequisites, "state_prerequisites")
        s6 == AppendIf(s5, ~da.has_troubleshooting, "add_troubleshooting")
        s7 == AppendIf(s6, da.information_richness[1] < 5 * da.information_richness[2],
                       "more_detail")
        s8 == AppendIf(s7, ~sa.code_support.has_code_examples /\ SeemsTechnicalContent(ia),
                       "include_code_examples")
        s9 == AppendIf(s8, ~sa.visual_support.has_images, "add_screenshots")
    IN  AppendIf(s9, ~sa.reference_support.has_references, "include_links")

\* _calculate_completeness_score, in tenths: a quarter each of example
\* quality, instruction score, information richness and support quality
CalculateCompletenessScore(ea, ia, da, sa, up) ==
    LET instruction_score ==
            7 - (IF ~ia.has_clear_steps THEN 2 ELSE 0)
              - (IF 100 * ia.instruction_density[1] < 2 * ia.instruction_density[2]
                 THEN 1 ELSE 0)
        rn == da.information_richness[1]
        rd == da.information_richness[2]
        num == (10 * ea.example_quality + 10 * instruction_score
                  + sa.overall_support_quality) * rd + 10 * rn
        \* quarters of integers and halves add up exactly in binary
        exact == rn % rd = 0
    IN  Clamp(0, 100, IF exact THEN RoundHalfEven(num, 4 * rd)
                      ELSE RoundDiv(num, 4 * rd, up))

\* _generate_completeness_summary
GenerateCompletenessSummary(score) ==
    IF score >= 80 THEN <<"Comprehensive documentation", score>>
    ELSE IF score >= 60 THEN <<"Good completeness", score>>
    ELSE IF score >= 40 THEN <<"Moderate completeness", score>>
    ELSE <<"Incomplete documentation", score>>

\* the completeness analyzer without the try / except around its pipeline
CompletenessAnalyzeNoCatch(d, llm, up) ==
    LET ea == AnalyzeExamples(d)
        ia == AnalyzeInstructions(d)
        da == AnalyzeInformationDepth(d)
        sa == AnalyzeSupportingMaterials(d.codeBlocks, d.images, d.links)
        score == CalculateCompletenessScore(ea, ia, da, sa, up)
    IN  IF Raised(sa) THEN sa
        ELSE [score |-> score,
              example_analysis |-> ea,
              instruction_analysis |-> ia,
              depth_analysis |-> da,
              support_analysis |-> sa,
              llm_analysis |-> AnalyzeCompletenessWithLLM(llm),
              suggestions |-> GenerateCompletenessSuggestions(ea, ia, da, sa),
              summary |-> GenerateCompletenessSummary(score)]

\* CompletenessAnalyzer.analyze
CompletenessAnalyze(d, llm, up) ==
    LET ea == AnalyzeExamples(d)
        ia == AnalyzeInstructions(d)
        da == AnalyzeInformationDepth(d)
        sa == AnalyzeSupportingMaterials(d.codeBlocks, d.images, d.links)
        score == CalculateCompletenessScore(ea, ia, da, sa, up)
    IN  IF Raised(sa) THEN FailureResult(sa.raise, CompletenessFailureSuggestion)
        ELSE [score |-> score,
              example_analysis |-> ea,
              instruction_analysis |-> ia,
              depth_analysis |-> da,
              support_analysis |-> sa,
              llm_analysis |-> AnalyzeCompletenessWithLLM(llm),
              suggestions |-> GenerateCompletenessSuggestions(ea, ia, da, sa),
              summary |-> GenerateCompletenessSummary(score)]

\* ------------------------------------------------------- style analyzer
StyleLLMFallback == "Unable to perform LLM-based style analysis due to API error"
StyleFailureSuggestion == "Unable to analyze style due to processing error"

\* a ratio a / b that is 0 when b is 0, as the fraction <<num, den>>
Ratio(a, b) == IF b > 0 THEN <<a, b>> ELSE <<0, 1>>
\* fraction >= p / q, fraction < p / q, fraction <= p / q
FracGe(f, p, q) == q * f[1] >= p * f[2]
FracLt(f, p, q) == q * f[1] < p * f[2]
FracLe(f, p, q) == q * f[1] <= p * f[2]

\* _analyze_sentence_types: _split_into_sentences splits on [.!?]+, so no
\* sentence handed over still ends with '?' or '!'
AnalyzeSentenceTypes(d) ==
    LET total == d.sentences
        interrogative == 0
        exclamatory == 0
        imperative == d.imperatives
        declarative == total - imperative
    IN  [declarative |-> declarative,
         interrogative |-> interrogative,
         imperative |-> imperative,
         exclamatory |-> exclamatory,
         declarative_ratio |-> Ratio(declarative, total),
         interrogative_ratio |-> Ratio(interrogative, total),
         imperative_ratio |-> Ratio(imperative, total),
         exclamatory_ratio |-> Ratio(exclamatory, total)]

\* _analyze_tone_indicators
AnalyzeToneIndicators(d) ==
    [positive_indicators |-> d.positive,
     negative_indicators |-> d.negative,
     confident_indicators |-> d.confident,
     tone_balance |-> d.positive - d.negative,
     confidence_level |-> d.confident]

\* _analyze_formality
AnalyzeFormality(d) ==
    LET formality_score == d.formal - d.informal - d.contractions
    IN  [formal_words |-> d.formal,
         informal_words |-> d.informal,
         contractions |-> d.contractions,
         formality_score |-> formality_score,
         formality_level |->
             IF formality_score > 5 THEN "Very Formal"
             ELSE IF formality_score > 0 THEN "Formal"
             ELSE IF formality_score > -5 THEN "Neutral"
             ELSE "Informal"]

\* voice quality with the first passive-ratio comparison turned round
DetermineVoiceQualityReversed(passive_ratio, tone_analysis) ==
    IF FracGe(passive_ratio, 1, 10) /\ tone_analysis.tone_balance > 0 THEN "Excellent"
    ELSE IF FracLt(passive_ratio, 2, 10) /\ tone_analysis.tone_balance >= 0 THEN "Good"
    ELSE IF FracLt(passive_ratio, 3, 10) THEN "Fair"
    ELSE "Needs Improvement"

\* _determine_voice_quality
DetermineVoiceQuality(passive_ratio, tone_analysis) ==
    IF FracLt(passive_ratio, 1, 10) /\ tone_analysis.tone_balance > 0 THEN "Excellent"
    ELSE IF FracLt(passive_ratio, 2, 10) /\ tone_analysis.tone_balance >= 0 THEN "Good"
    ELSE IF FracLt(passive_ratio, 3, 10) THEN "Fair"
    ELSE "Needs Improvement"

\* _analyze_voice_tone
AnalyzeVoiceTone(d, up) ==
    LET passive_ratio == Ratio(d.passive, d.sentences)
        tone_analysis == AnalyzeToneIndicators(d)
    IN  [total_sentences |-> d.sentences,
         passive_voice_count |-> d.passive,
         passive_voice_ratio |-> RoundDiv(1000 * passive_ratio[1], passive_ratio[2], up),
         sentence_types |-> AnalyzeSentenceTypes(d),
         tone_indicators |-> tone_analysis,
         formality_level |-> AnalyzeFormality(d),
         voice_quality |-> DetermineVoiceQuality(passive_ratio, tone_analysis)]

\* _grade_clarity; readability_score in tenths
GradeClarity(avg_sentence_length, complex_word_ratio, readability_score) ==
    Min(10, (IF FracLe(avg_sentence_length, 20, 1) THEN 3
             ELSE IF FracLe(avg_sentence_length, 25, 1) THEN 2
             ELSE IF FracLe(avg_sentence_length, 30, 1) THEN 1 ELSE 0)
            + (IF FracLe(complex_word_ratio, 10, 100) THEN 3
               ELSE IF FracLe(complex_word_ratio, 15, 100) THEN 2
               ELSE IF FracLe(complex_word_ratio, 20, 100) THEN 1 ELSE 0)
            + (IF readability_score >= 700 THEN 4
               ELSE IF readability_score >= 600 THEN 3
               ELSE IF readability_score >= 500 THEN 2
               ELSE IF readability_score >= 400 THEN 1 ELSE 0))

\* _analyze_sentence_complexity
AnalyzeSentenceComplexity(d, up) ==
    IF d.sentences = 0 THEN [avg_clauses |-> 0, complex_sentences |-> 0]
    ELSE [avg_clauses |-> RoundDiv(10 * d.totalClauses, d.sentences, up),
          complex_sentences |-> d.complexSentences,
          complexity_ratio |-> <<d.complexSentences, d.sentences>>]

\* _analyze_clarity; flesch_reading_ease(content) if content else 0
AnalyzeClarity(d, up) ==
    IF d.chars > 0 /\ "flesch_reading_ease" \in d.tsFail THEN Raise("textstat error")
    ELSE LET avg_sentence_length == Ratio(d.words, d.sentences)
             avg_word_length == Ratio(d.wordChars, d.words)
             complex_word_ratio == Ratio(d.complexWords, d.words)
             readability_score == IF d.chars > 0 THEN d.flesch ELSE 0
         IN  [avg_sentence_length |->
                  RoundDiv(10 * avg_sentence_length[1], avg_sentence_length[2], up),
              avg_word_length |-> RoundDiv(10 * avg_word_length[1], avg_word_length[2], up),
              complex_words |-> d.complexWords,
              complex_word_ratio |->
                  RoundDiv(1000 * complex_word_ratio[1], complex_word_ratio[2], up),
              filler_words |-> [total_fillers |-> d.fillers,
                                filler_density |-> Ratio(d.fillers, d.words)],
              sentence_complexity |-> AnalyzeSentenceComplexity(d, up),
              readability_score |-> readability_score,
              clarity_grade |->
                  GradeClarity(avg_sentence_length, complex_word_ratio, readability_score)]

\* _grade_action_orientation
GradeActionOrientation(action_verb_count, imperative_ratio, word_count) ==
    IF word_count = 0 THEN 0
    ELSE LET action_density == <<action_verb_count, word_count>>
         IN  Min(10, (IF FracGe(action_density, 20, 1000) THEN 4
                      ELSE IF FracGe(action_density, 15, 1000) THEN 3
                      ELSE IF FracGe(action_density, 10, 1000) THEN 2
                      ELSE IF FracGe(action_density, 5, 1000) THEN 1 ELSE 0)
                     + (IF FracGe(imperative_ratio, 20, 100) THEN 4
                        ELSE IF FracGe(imperative_ratio, 15, 100) THEN 3
                        ELSE IF FracGe(imperative_ratio, 10, 100) THEN 2
                        ELSE IF FracGe(imperative_ratio, 5, 100) THEN 1 ELSE 0))

\* _analyze_user_focus
AnalyzeUserFocus(d) ==
    [user_pronouns |-> d.userPronouns,
     system_pronouns |-> d.systemPronouns,
     user_focus_ratio |-> Ratio(d.userPronouns, d.userPronouns + d.systemPronouns)]

\* _analyze_action_language
AnalyzeActionLanguage(d, up) ==
    LET imperative_ratio == Ratio(d.imperatives, d.sentences)
    IN  [action_verb_count |-> d.actionVerbs,
         imperative_sentences |-> d.imperatives,
         imperative_ratio |-> RoundDiv(1000 * imperative_ratio[1], imperative_ratio[2], up),
         user_focus |-> AnalyzeUserFocus(d),
         action_orientation |->
             GradeActionOrientation(d.actionVerbs, imperative_ratio, d.words)]

\* _calculate_consistency_score, in tenths
CalculateConsistencyScore(capitalization, terminology) ==
    LET cap_rate == capitalization.capitalization_rate
    IN  Clamp(0, 100, 70 + (IF FracGe(cap_rate, 9, 10) THEN 10
                            ELSE IF FracLt(cap_rate, 7, 10) THEN -10 ELSE 0)
                         - 5 * terminology.issues_count)

\* _analyze_consistency
AnalyzeConsistency(d) ==
    LET capitalization ==
            [proper_sentence_caps |-> d.properCaps,
             total_sentences |-> d.sentences,
             capitalization_rate |-> Ratio(d.properCaps, d.sentences)]
        punctuation ==
            [periods |-> d.punctuation[1], commas |-> d.punctuation[2],
             semicolons |-> d.punctuation[3], colons |-> d.punctuation[4],
             punctuation_variety |-> Cardinality({i \in 1..4 : d.punctuation[i] > 0})]
        terminology == [issues_count |-> d.termIssues]
        formatting ==
            [single_quotes |-> d.formatting[1], double_quotes |-> d.formatting[2],
             bold_markers |-> d.formatting[3], italic_markers |-> d.formatting[4]]
    IN  [capitalization |-> capitalization,
         punctuation |-> punctuation,
         terminology |-> terminology,
         formatting |-> formatting,
         overall_consistency |-> CalculateConsistencyScore(capitalization, terminology)]

\* _analyze_style_with_llm
AnalyzeStyleWithLLM(llm) ==
    IF llm = "text" THEN LLMText ELSE StyleLLMFallback

\* _generate_style_suggestions
GenerateStyleSuggestions(va, ca, aa, cons) ==
    LET s1 == AppendIf(<<>>, va.passive_voice_ratio > 200, "reduce_passive_voice")
        s2 == AppendIf(s1, va.tone_indicators.tone_balance < 0, "more_positive_language")
        s3 == AppendIf(s2, ca.avg_sentence_length > 250, "shorten_sentences")
        s4 == AppendIf(s3, ca.complex_word_ratio > 150, "simplify_complex_words")
        s5 == AppendIf(s4, ~FracLe(ca.filler_words.filler_density, 3, 100), "remove_fillers")
        s6 == AppendIf(s5, aa.imperative_ratio < 100, "more_imperatives")
        s7 == AppendIf(s6, FracLt(aa.user_focus.user_focus_ratio, 1, 2), "more_user_focus")
    IN  AppendIf(s7, cons.terminology.issues_count > 0, "consistent_terminology")

\* the voice-quality bucket score of _calculate_style_score
VoiceScore(voice_quality) ==
    CASE voice_quality = "Excellent" -> 10
      [] voice_quality = "Good" -> 8
      [] voice_quality = "Fair" -> 6
      [] voice_quality = "Needs Improvement" -> 4
      [] OTHER -> 5

\* the style score with the voice weight mistyped as 0.35
CalculateStyleScoreHeavyVoice(va, ca, aa, cons, up) ==
    RoundDiv(35 * VoiceScore(va.voice_quality) + 30 * ca.clarity_grade
               + 25 * aa.action_orientation + 2 * cons.overall_consistency, 10, up)

\* _calculate_style_score, in tenths: 0.25 voice + 0.30 clarity
\* + 0.25 action + 0.20 consistency, rounded, not clamped
CalculateStyleScore(va, ca, aa, cons, up) ==
    RoundDiv(25 * VoiceScore(va.voice_quality) + 30 * ca.clarity_grade
               + 25 * aa.action_orientation + 2 * cons.overall_consistency, 10, up)

\* _generate_style_summary
GenerateStyleSummary(score) ==
    IF score >= 80 THEN <<"Excellent writing style", score>>
    ELSE IF score >= 60 THEN <<"Good writing style", score>>
    ELSE IF score >= 40 THEN <<"Adequate style", score>>
    ELSE <<"Poor writing style", score>>

\* the style analyzer with the LLM call outside its own try / except: a
\* failed call reaches the analyzer's except clause
StyleAnalyzeLLMUncaught(d, llm, up) ==
    LET va == AnalyzeVoiceTone(d, up)
        ca == AnalyzeClarity(d, up)
        aa == AnalyzeActionLanguage(d, up)
        cons == AnalyzeConsistency(d)
        score == CalculateStyleScore(va, ca, aa, cons, up)
    IN  IF Raised(ca) THEN FailureResult(ca.raise, StyleFailureSuggestion)
        ELSE IF llm = "raise" THEN FailureResult("API error", StyleFailureSuggestion)
        ELSE [score |-> score,
              voice_analysis |-> va,
              clarity_analysis |-> ca,
              action_analysis |-> aa,
              consistency_analysis |-> cons,
              llm_analysis |-> AnalyzeStyleWithLLM(llm),
              suggestions |-> GenerateStyleSuggestions(va, ca, aa, cons),
              summary |-> GenerateStyleSummary(score)]

\* StyleAnalyzer.analyze
StyleAnalyze(d, llm, up) ==
    LET va == AnalyzeVoiceTone(d, up)
        ca == AnalyzeClarity(d, up)
        aa == AnalyzeActionLanguage(d, up)
        cons == AnalyzeConsistency(d)
        score == CalculateStyleScore(va, ca, aa, cons, up)
    IN  IF Raised(ca) THEN FailureResult(ca.raise, StyleFailureSuggestion)
        ELSE [score |-> score,
              voice_analysis |-> va,
              clarity_analysis |-> ca,
              action_analysis |-> aa,
              consistency_analysis |-> cons,
              llm_analysis |-> AnalyzeStyleWithLLM(llm),
              suggestions |-> GenerateStyleSuggestions(va, ca, aa, cons),
              summary |-> GenerateStyleSummary(score)]

\* ------------------------------------------------------------ aggregator
Dimensions == <<"readability", "structure", "completeness", "style">>

\* weights that let the readability score dominate the mean
WeightReadabilityHeavy(dim) == IF dim = "readability" THEN 70 ELSE 10

\* the weight appended next to each score, in hundredths
Weight(dim) == 25

HasScore(result) == "score" \in DOMAIN result

\* a result that is no mapping at all (None): `'score' in result` and
\* result.get raise on it
NoneResult == [none |-> TRUE]

IsNone(result) == "none" \in DOMAIN result

\* the overall score divided by the four weights whatever is present
CalculateOverallScoreFixedDivisor(res, up) ==
    LET present == {i \in 1..4 : HasScore(res[i])}
        weighted_score == SumSeq([i \in 1..4 |->
                              IF i \in present THEN res[i].score * Weight(Dimensions[i]) ELSE 0])
    IN  IF present # {} THEN RoundDiv(weighted_score, 100, up) ELSE 0

\* the overall score falling back to the middle of the scale
CalculateOverallScoreMidScale(res, up) ==
    LET present == {i \in 1..4 : "score" \in DOMAIN res[i]}
        weighted_score == SumSeq([i \in 1..4 |->
                              IF i \in present THEN res[i].score * 25 ELSE 0])
        weight_sum == SumSeq([i \in 1..4 |-> IF i \in present THEN 25 ELSE 0])
    IN  IF \E i \in 1..4 : "none" \in DOMAIN res[i] THEN 50
        ELSE IF present # {} THEN RoundDiv(weighted_score, weight_sum, up) ELSE 0

\* _calculate_overall_score over the results res[1..4], in tenths; an
\* exception anywhere in its body returns 0.0
CalculateOverallScore(res, up) ==
    LET present == {i \in 1..4 : HasScore(res[i])}
        weighted_score == SumSeq([i \in 1..4 |->
                              IF i \in present THEN res[i].score * Weight(Dimensions[i]) ELSE 0])
        weight_sum == SumSeq([i \in 1..4 |->
                              IF i \in present THEN Weight(Dimensions[i]) ELSE 0])
    IN  IF \E i \in 1..4 : IsNone(res[i]) THEN 0
        ELSE IF present # {} THEN RoundDiv(weighted_score, weight_sum, up) ELSE 0

\* result.get('score', 0)
GetScore(result) == IF HasScore(result) THEN result.score ELSE 0

StrengthText(dim) ==
    CASE dim = "readability" -> "Good readability for target audience"
      [] dim = "structure" -> "Well-organized document structure"
      [] dim = "completeness" -> "Comprehensive information coverage"
      [] dim = "style" -> "Adherence to style guidelines"

ImprovementText(dim) ==
    CASE dim = "readability" -> "Improve readability for marketers"
      [] dim = "structure" -> "Enhance document structure and flow"
      [] dim = "completeness" -> "Add missing information and examples"
      [] dim = "style" -> "Improve writing style and tone"

RecExcellent == "Excellent documentation with minor improvements needed"
RecGood == "Good documentation with some areas for improvement"
RecAdequate == "Adequate documentation requiring moderate improvements"
RecPoor == "Documentation needs significant improvements across multiple areas"
RecUnable == "Unable to generate summary due to analysis errors"

\* the recommendation with the Good threshold at 7.5
RecommendationLateGood(overall_score) ==
    IF overall_score >= 80 THEN RecExcellent
    ELSE IF overall_score >= 75 THEN RecGood
    ELSE IF overall_score >= 60 THEN RecAdequate
    ELSE RecPoor

\* the recommendation chosen from the overall score (tenths)
Recommendation(overall_score) ==
    IF overall_score >= 80 THEN RecExcellent
    ELSE IF overall_score >= 70 THEN RecGood
    ELSE IF overall_score >= 60 THEN RecAdequate
    ELSE RecPoor

\* the entries a list of the summary collects, in the order of Dimensions
Collect(Keep(_), Entry(_)) ==
    LET idx == SortedSeq({i \in 1..4 : Keep(i)})
    IN  [k \in 1..Len(idx) |-> Entry(idx[k])]

\* the summary as it stands when result k raises in the strengths block:
\* the strengths appended before it stay, the other lists are still empty
InterruptedSummary(res, k) ==
    [strengths |->
         Collect(LAMBDA i : i < k /\ GetScore(res[i]) >= 70,
                 LAMBDA i : StrengthText(Dimensions[i])),
     weaknesses |-> <<>>,
     priority_improvements |-> <<>>,
     recommendation |-> RecUnable]

\* the summary with a strength only above 7
GenerateSummaryStrictStrength(res, up) ==
    [strengths |->
         Collect(LAMBDA i : GetScore(res[i]) > 70, LAMBDA i : StrengthText(Dimensions[i])),
     weaknesses |->
         Collect(LAMBDA i : GetScore(res[i]) < 60,
                 LAMBDA i : <<"Poor", Dimensions[i], GetScore(res[i])>>),
     priority_improvements |->
         Collect(LAMBDA i : GetScore(res[i]) < 70, LAMBDA i : ImprovementText(Dimensions[i])),
     recommendation |-> Recommendation(CalculateOverallScore(res, up))]

\* the summary that asks for an improvement only where it names a weakness
GenerateSummaryImproveWeakOnly(res, up) ==
    [strengths |->
         Collect(LAMBDA i : GetScore(res[i]) >= 70, LAMBDA i : StrengthText(Dimensions[i])),
     weaknesses |->
         Collect(LAMBDA i : GetScore(res[i]) < 60,
                 LAMBDA i : <<"Poor", Dimensions[i], GetScore(res[i])>>),
     priority_improvements |->
         Collect(LAMBDA i : GetScore(res[i]) < 60, LAMBDA i : ImprovementText(Dimensions[i])),
     recommendation |-> Recommendation(CalculateOverallScore(res, up))]

\* _generate_summary
GenerateSummary(res, up) ==
    LET broken == {i \in 1..4 : IsNone(res[i])}
    IN  IF broken # {}
        THEN InterruptedSummary(res, CHOOSE k \in broken : \A j \in broken : k <= j)
        ELSE [strengths |->
                  Collect(LAMBDA i : GetScore(res[i]) >= 70,
                          LAMBDA i : StrengthText(Dimensions[i])),
              weaknesses |->
                  Collect(LAMBDA i : GetScore(res[i]) < 60,
                          LAMBDA i : <<"Poor", Dimensions[i], GetScore(res[i])>>),
              priority_improvements |->
                  Collect(LAMBDA i : GetScore(res[i]) < 70,
                          LAMBDA i : ImprovementText(Dimensions[i])),
              recommendation |-> Recommendation(CalculateOverallScore(res, up))]

\* ------------------------------------------------------------- documents
\* the page with empty content and every sequence empty
EmptyDoc ==
    [url |-> "u", title |-> "t", scraped_at |-> "now",
     contentType |-> "str", chars |-> 0, words |-> 0, contentParas |-> <<>>,
     tsFail |-> {}, tsWords |-> 0, tsSentences |-> 0, tsSyllables |-> 0,
     flesch |-> 2068, grade |-> -156, fog |-> 0, coleman |-> -158, ari |-> -214, smog |-> 0,
     techTerms |-> 0, jargon |-> 0,
     headings |-> <<>>, paragraphs |-> <<>>, lists |-> <<>>,
     transitions |-> 0, stepMarkers |-> FALSE,
     exampleMentions |-> 0, codeBlocks |-> <<>>, images |-> <<>>, links |-> <<>>,
     instructionCount |-> 0, stepIndicators |-> 0, depthIndicators |-> 0,
     explanations |-> 0, prerequisites |-> 0, troubleshooting |-> 0,
     sentences |-> 0, questions |-> 0, exclamations |-> 0,
     passive |-> 0, positive |-> 0, negative |-> 0, confident |-> 0,
     formal |-> 0, informal |-> 0, contractions |-> 0,
     wordChars |-> 0, complexWords |-> 0, fillers |-> 0,
     totalClauses |-> 0, complexSentences |-> 0,
     actionVerbs |-> 0, imperatives |-> 0, userPronouns |-> 0, systemPronouns |-> 0,
     properCaps |-> 0, termIssues |-> 0,
     punctuation |-> <<0, 0, 0, 0>>, formatting |-> <<0, 0, 0, 0>>]

\* a help article of 600 words in 40 sentences, 2 of them ending with '?'
\* and 1 with '!' in the content
TypicalDoc ==
    [url |-> "u", title |-> "t", scraped_at |-> "now",
     contentType |-> "str", chars |-> 3600, words |-> 600, contentParas |-> <<300, 300>>,
     tsFail |-> {}, tsWords |-> 600, tsSentences |-> 40, tsSyllables |-> 900,
     flesch |-> 655, grade |-> 95, fog |-> 110, coleman |-> 100, ari |-> 98, smog |-> 105,
     techTerms |-> 12, jargon |-> 4,
     headings |-> <<[level |-> 1, text |-> "Overview"],
                    [level |-> 2, text |-> "Setup guide"],
                    [level |-> 2, text |-> "Summary"]>>,
     paragraphs |-> <<60, 120>>,
     lists |-> <<[type |-> "ordered", item_count |-> 3]>>,
     transitions |-> 6, stepMarkers |-> TRUE,
     exampleMentions |-> 3,
     codeBlocks |-> <<[type |-> "block", language |-> "python", commented |-> TRUE]>>,
     images |-> <<"logo">>, links |-> <<TRUE, FALSE>>,
     instructionCount |-> 15, stepIndicators |-> 4, depthIndicators |-> 5,
     explanations |-> 1, prerequisites |-> 1, troubleshooting |-> 0,
     sentences |-> 40, questions |-> 2, exclamations |-> 1,
     passive |-> 5, positive |-> 3, negative |-> 1, confident |-> 2,
     formal |-> 1, informal |-> 4, contractions |-> 1,
     wordChars |-> 3000, complexWords |-> 80, fillers |-> 6,
     totalClauses |-> 70, complexSentences |-> 9,
     actionVerbs |-> 10, imperatives |-> 6, userPronouns |-> 12, systemPronouns |-> 4,
     properCaps |-> 38, termIssues |-> 1,
     punctuation |-> <<40, 25, 0, 3>>, formatting |-> <<2, 4, 0, 0>>]

\* values textstat can report (tenths) and the functions of it that may raise
FleschValues == {-120, 0, 355, 655, 1000, 2068}
GradeValues == {-156, 80, 95, 131}
TechTermValues == {0, 12, 31, 400}
TsFailValues == {{}, {"smog_index"}, {"flesch_reading_ease"}, {"sentence_count"}}

HeadingChoices ==
    {[level |-> 1, text |-> "Overview"], [level |-> 2, text |-> "Setup guide"],
     [level |-> 3, text |-> "Summary"], [level |-> 5, text |-> ""],
     [level |-> 2, text |-> ""]}
ParagraphWordCounts == {10, 60, 150, 250}

\* all sequences over S of length at most n
SeqsUpTo(S, n) == UNION {[1..k -> S] : k \in 0..n}

JargonValues == {4, 6, 12, 25}

ReadabilityDocs ==
    {[TypicalDoc EXCEPT !.flesch = f, !.grade = g, !.techTerms = t, !.tsFail = x] :
        f \in FleschValues, g \in GradeValues, t \in TechTermValues, x \in TsFailValues}
    \cup {[TypicalDoc EXCEPT !.jargon = j, !.tsSyllables = sy, !.tsSentences = se,
                             !.flesch = f, !.grade = g, !.techTerms = t] :
        j \in JargonValues, sy \in {900, 1100}, se \in {20, 40},
        f \in {355, 655}, g \in {95, 131}, t \in {12, 31}}
    \cup {[EmptyDoc EXCEPT !.flesch = f, !.grade = g, !.tsFail = x] :
        f \in FleschValues, g \in GradeValues, x \in TsFailValues}

StructureDocs ==
    {[TypicalDoc EXCEPT !.headings = h, !.lists = l] :
        h \in SeqsUpTo(HeadingChoices, MaxHeadings),
        l \in {<<>>, <<[type |-> "unordered", item_count |-> 4]>>}}
    \cup {[b EXCEPT !.paragraphs = p] :
        b \in {TypicalDoc, [TypicalDoc EXCEPT !.contentParas = <<>>]},
        p \in SeqsUpTo(ParagraphWordCounts, MaxParagraphs)}

CodeBlockSeqs ==
    {<<>>,
     <<[type |-> "inline", language |-> "unknown", commented |-> FALSE]>>,
     <<[type |-> "block", language |-> "python", commented |-> TRUE],
       [type |-> "block", language |-> "json", commented |-> FALSE],
       [type |-> "inline", language |-> "python", commented |-> FALSE]>>}

CompletenessDocs ==
    {[TypicalDoc EXCEPT !.exampleMentions = e, !.codeBlocks = c, !.images = i, !.links = l] :
        e \in {0, 1, 3}, c \in CodeBlockSeqs, i \in SeqsUpTo(AltTexts, MaxItems),
        l \in {<<>>, <<FALSE>>, <<TRUE, FALSE>>}}
    \cup {[TypicalDoc EXCEPT !.instructionCount = n, !.stepIndicators = st,
                             !.depthIndicators = dp, !.explanations = ex,
                             !.prerequisites = pr, !.troubleshooting = tr,
                             !.codeBlocks = c] :
        n \in {0, 7, 15}, st \in {0, 4}, dp \in {0, 1, 5}, ex \in {0, 2},
        pr \in {0, 1}, tr \in {0, 2}, c \in {<<>>, TypicalDoc.codeBlocks}}

StyleDocs ==
    {[TypicalDoc EXCEPT !.passive = pv, !.positive = po, !.negative = ne,
                        !.properCaps = pc, !.termIssues = ti] :
        pv \in {0, 3, 7, 11, 13}, po \in {0, 3}, ne \in {0, 1},
        pc \in {20, 30, 38}, ti \in {0, 1, 4}}
    \cup {[TypicalDoc EXCEPT !.complexWords = cw, !.flesch = f, !.sentences = n,
                             !.actionVerbs = av, !.imperatives = im] :
        cw \in {30, 80, 110, 200}, f \in {355, 655, 1000}, n \in {20, 26, 40},
        av \in {0, 7, 15}, im \in {0, 4, 8}}

\* the best and the worst a page can do on every style component at once
StyleCornerDocs ==
    {[TypicalDoc EXCEPT !.passive = 0, !.positive = 3, !.negative = 0, !.complexWords = 30,
                        !.flesch = 1000, !.actionVerbs = 15, !.imperatives = 8,
                        !.properCaps = 40, !.termIssues = 0],
     [TypicalDoc EXCEPT !.passive = 13, !.complexWords = 200, !.sentences = 15,
                        !.properCaps = 0, !.flesch = 0, !.actionVerbs = 0,
                        !.imperatives = 0, !.termIssues = 4]}

\* 'content' present but not a string
NoneContentDoc == [EmptyDoc EXCEPT !.contentType = "none"]

Docs ==
    {EmptyDoc, TypicalDoc, NoneContentDoc} \cup ReadabilityDocs \cup StructureDocs
        \cup CompletenessDocs \cup StyleDocs \cup StyleCornerDocs

\* ---------------------------------------------------- analyze_document
\* doc0 is the feature record as it was passed in, stub the outcomes the
\* stubbed collaborators are fixed to, first the report of an earlier call
VARIABLES doc, pc, results, twin, llmLog, report, doc0, stub, first, attempts, scraped

vars == <<doc, pc, results, twin, llmLog, report, doc0, stub, first, attempts, scraped>>

Pending == [pending |-> TRUE]
NoResults == [dim \in SeqRange(Dimensions) |-> Pending]
NoLog == [dim \in SeqRange(Dimensions) |-> <<>>]
Unset == <<>>
NoStub == [step \in SeqRange(Dimensions) \cup {"aggregate"} |-> Unset]

Init ==
    /\ doc \in Docs
    /\ pc = "start"
    /\ results = NoResults
    /\ twin = NoResults
    /\ llmLog = NoLog
    /\ report = Pending
    /\ doc0 = doc
    /\ stub = NoStub
    /\ first = Pending
    /\ attempts = <<>>
    /\ scraped = Pending

\* the analyzer of a dimension
Analyze(dim, d, llm, up) ==
    CASE dim = "readability" -> ReadabilityAnalyze(d, llm, up)
      [] dim = "structure" -> StructureAnalyze(d, llm, up)
      [] dim = "completeness" -> CompletenessAnalyze(d, llm, up)
      [] dim = "style" -> StyleAnalyze(d, llm, up)

\* a style analyzer that empties the headings of the record it was given
DocAfterStyleClearsHeadings(dim, d) ==
    IF dim = "style" THEN [d EXCEPT !.headings = <<>>] ELSE d

\* a structure analyzer that takes the paragraphs out of the record it reads
DocAfterConsuming(dim, d) ==
    IF dim = "structure" THEN [d EXCEPT !.paragraphs = <<>>] ELSE d

\* the feature record after an analyzer has run on it: every analyzer reads
\* scraped_data with .get and builds new values, leaving the record as it was
DocAfter(dim, d) == d

\* whether the analyzer gets as far as its LLM call on this page
ReachesLLM(dim, d) ==
    CASE dim = "readability" -> ~Raised(CalculateBasicMetrics(d, TRUE))
      [] dim = "structure" -> ~Raised(AnalyzeHeadings(d.headings))
      [] dim = "completeness" ->
             ~Raised(AnalyzeSupportingMaterials(d.codeBlocks, d.images, d.links))
      [] dim = "style" -> ~Raised(AnalyzeClarity(d, TRUE))

OtherOutcome(llm) == IF llm = "text" THEN "raise" ELSE "text"

\* an analyzer that calls generate_content again after a failed call
LLMCallsRetry(dim, d, llm) ==
    IF ~ReachesLLM(dim, d) THEN <<>>
    ELSE IF llm = "raise" THEN <<"raise", "raise">>
    ELSE <<llm>>

\* the generate_content calls one analyzer call makes, with their outcomes:
\* the single call of its LLM step, when the pipeline gets that far
LLMCalls(dim, d, llm) ==
    IF ~ReachesLLM(dim, d) THEN <<>>
    ELSE <<llm>>

\* the record the outer except clause of analyze_document returns
ErrorReport(msg) ==
    [error |-> msg, document_info |-> [url |-> doc.url, title |-> doc.title]]

\* analyze_document up to the first analyzer: reads url, title and content
\* and logs len(content); a failure here goes to the outer except clause
StartStep(next) ==
    /\ pc = "start"
    /\ IF doc.contentType = "str"
       THEN /\ pc' = next
            /\ report' = report
       ELSE /\ pc' = "done"
            /\ report' = ErrorReport("object of type 'NoneType' has no len()")
    /\ UNCHANGED <<doc, results, twin, llmLog, doc0, stub, first, attempts, scraped>>

Start == StartStep("readability")

\* one analyzer call of analyze_document; an exception the analyzer lets out
\* goes to the outer except clause.  twin is the result the same call gives
\* when the LLM call has the other outcome
AnalyzerStep(dim, input, llm, up, next) ==
    LET result == Analyze(dim, input, llm, up)
    IN  /\ IF Raised(result)
           THEN /\ pc' = "done"
                /\ report' = ErrorReport(result.raise)
                /\ UNCHANGED <<results, twin, llmLog>>
           ELSE /\ results' = [results EXCEPT ![dim] = result]
                /\ twin' = [twin EXCEPT ![dim] = Analyze(dim, input, OtherOutcome(llm), up)]
                /\ llmLog' = [llmLog EXCEPT ![dim] = @ \o LLMCalls(dim, input, llm)]
                /\ pc' = next
                /\ report' = report
        /\ doc' = DocAfter(dim, doc)
        /\ UNCHANGED <<attempts, scraped>>

RunAnalyzer(dim, next) ==
    /\ pc = dim
    /\ \E llm \in LLMOutcomes, up \in BOOLEAN : AnalyzerStep(dim, doc, llm, up, next)
    /\ UNCHANGED <<doc0, stub, first>>

RunReadability == RunAnalyzer("readability", "structure")
RunStructure == RunAnalyzer("structure", "completeness")
RunCompleteness == RunAnalyzer("completeness", "style")
RunStyle == RunAnalyzer("style", "aggregate")

ResultSeq(r) == [i \in 1..4 |-> r[Dimensions[i]]]

\* the rest of analyze_document: overall score, summary, return
BuildReport(d, res, up) ==
    [document_info |->
         [url |-> d.url, title |-> d.title,
          word_count |-> d.words, character_count |-> d.chars,
          analyzed_at |-> d.scraped_at],
     readability |-> res["readability"],
     structure |-> res["structure"],
     completeness |-> res["completeness"],
     style |-> res["style"],
     overall_score |-> CalculateOverallScore(ResultSeq(res), up),
     summary |-> GenerateSummary(ResultSeq(res), up)]

AggregateStep(up) ==
    /\ pc = "aggregate"
    /\ report' = BuildReport(doc, results, up)
    /\ pc' = "done"
    /\ UNCHANGED <<doc, results, twin, llmLog, doc0, first, attempts, scraped>>

Aggregate ==
    /\ \E up \in BOOLEAN : AggregateStep(up)
    /\ UNCHANGED stub

Next ==
    \/ Start
    \/ RunReadability
    \/ RunStructure
    \/ RunCompleteness
    \/ RunStyle
    \/ Aggregate

Spec == Init /\ [][Next]_vars

\* ------------------------------------------ the aggregator on its own
\* _calculate_overall_score and _generate_summary take any four results: a
\* result here is a score alone or a record without one
ScoreValues == {0, 22, 59, 60, 69, 70, 85, 100}
ResultStubs == {[error |-> "failed"]} \cup {[score |-> v] : v \in ScoreValues}

InitAgg ==
    /\ doc = TypicalDoc
    /\ pc = "aggregate"
    /\ results \in [SeqRange(Dimensions) -> ResultStubs]
    /\ twin = NoResults
    /\ llmLog = NoLog
    /\ report = Pending
    /\ doc0 = doc
    /\ stub = NoStub
    /\ first = Pending
    /\ attempts = <<>>
    /\ scraped = Pending

NextAgg == Aggregate

SpecAgg == InitAgg /\ [][NextAgg]_vars

\* the aggregator handed at least one result that is no mapping, so that
\* its own exception handlers run
InitAggFail ==
    /\ doc = TypicalDoc
    /\ pc = "aggregate"
    /\ results \in [SeqRange(Dimensions) -> ResultStubs \cup {NoneResult}]
    /\ \E dim \in SeqRange(Dimensions) : IsNone(results[dim])
    /\ twin = NoResults
    /\ llmLog = NoLog
    /\ report = Pending
    /\ doc0 = doc
    /\ stub = NoStub
    /\ first = Pending
    /\ attempts = <<>>
    /\ scraped = Pending

NextAggFail == Aggregate

SpecAggFail == InitAggFail /\ [][NextAggFail]_vars

\* ----------------------------- the same instance called a second time
\* api.py keeps one DocumentationAnalyzer and calls analyze_document per
\* request.  The LLM collaborator is stubbed: it answers a step the way it
\* answered it before, and so does the rounding of equal operands
TwiceDocs ==
    {EmptyDoc, TypicalDoc, NoneContentDoc} \cup StyleCornerDocs
        \cup {[TypicalDoc EXCEPT !.tsFail = x] : x \in TsFailValues}
        \cup {[TypicalDoc EXCEPT !.paragraphs = p] :
                  p \in SeqsUpTo(ParagraphWordCounts, MaxParagraphs)}
        \cup {[TypicalDoc EXCEPT !.headings = h] : h \in SeqsUpTo(HeadingChoices, 1)}
        \cup {[TypicalDoc EXCEPT !.images = i] : i \in SeqsUpTo(AltTexts, 1)}

InitTwice ==
    /\ doc \in TwiceDocs
    /\ pc = "start"
    /\ results = NoResults
    /\ twin = NoResults
    /\ llmLog = NoLog
    /\ report = Pending
    /\ doc0 = doc
    /\ stub = NoStub
    /\ first = Pending
    /\ attempts = <<>>
    /\ scraped = Pending

\* an analyzer call whose collaborators answer as the stub fixes them
RunStubbed(dim, next) ==
    /\ pc = dim
    /\ \E llm \in LLMOutcomes, up \in BOOLEAN :
          /\ stub[dim] \in {Unset, <<llm, up>>}
          /\ AnalyzerStep(dim, doc, llm, up, next)
          /\ stub' = [stub EXCEPT ![dim] = <<llm, up>>]
    /\ UNCHANGED <<doc0, first>>

StubbedReadability == RunStubbed("readability", "structure")
StubbedStructure == RunStubbed("structure", "completeness")
StubbedCompleteness == RunStubbed("completeness", "style")
StubbedStyle == RunStubbed("style", "aggregate")

AggregateStubbed ==
    \E up \in BOOLEAN :
        /\ stub["aggregate"] \in {Unset, <<up>>}
        /\ AggregateStep(up)
        /\ stub' = [stub EXCEPT !["aggregate"] = <<up>>]

\* analyze_document has returned; the caller keeps the report and calls it
\* again with the same scraped_data: results = {} starts empty again
CallAgain ==
    /\ pc = "done"
    /\ first = Pending
    /\ first' = report
    /\ pc' = "start"
    /\ results' = NoResults
    /\ twin' = NoResults
    /\ llmLog' = NoLog
    /\ report' = Pending
    /\ UNCHANGED <<doc, doc0, stub, attempts, scraped>>

NextTwice ==
    \/ Start
    \/ StubbedReadability
    \/ StubbedStructure
    \/ StubbedCompleteness
    \/ StubbedStyle
    \/ AggregateStubbed
    \/ CallAgain

SpecTwice == InitTwice /\ [][NextTwice]_vars

\* ------------------------------- the four analyzers as parallel tasks
\* each task reads the record when it begins (the scraped_data.get calls
\* that open analyze) and delivers its result when it ends; tasks begin and
\* end in any order
InitAnyOrder ==
    /\ doc \in TwiceDocs
    /\ pc = "start"
    /\ results = NoResults
    /\ twin = NoResults
    /\ llmLog = NoLog
    /\ report = Pending
    /\ doc0 = doc
    /\ stub = NoStub
    /\ first = Pending
    /\ attempts = <<>>
    /\ scraped = Pending

StartAnyOrder == StartStep("analyzers")

Running(result) == "running" \in DOMAIN result

BeginAnalyzer(dim) ==
    /\ pc = "analyzers"
    /\ results[dim] = Pending
    /\ results' = [results EXCEPT ![dim] = [running |-> TRUE, input |-> doc]]
    /\ UNCHANGED <<doc, pc, twin, llmLog, report, doc0, stub, first, attempts, scraped>>

EndAnalyzer(dim) ==
    /\ pc = "analyzers"
    /\ Running(results[dim])
    /\ \E llm \in LLMOutcomes, up \in BOOLEAN :
          /\ AnalyzerStep(dim, results[dim].input, llm, up,
                          IF \A other \in SeqRange(Dimensions) \ {dim} :
                                 HasScore(results[other])
                          THEN "aggregate" ELSE "analyzers")
          /\ stub' = [stub EXCEPT ![dim] = <<llm, up>>]
    /\ UNCHANGED <<doc0, first>>

NextAnyOrder ==
    \/ StartAnyOrder
    \/ \E dim \in SeqRange(Dimensions) : BeginAnalyzer(dim)
    \/ \E dim \in SeqRange(Dimensions) : EndAnalyzer(dim)
    \/ AggregateStubbed

SpecAnyOrder == InitAnyOrder /\ [][NextAnyOrder]_vars

\* the fixed order of analyze_document: the record the i-th analyzer is
\* given, and the result it returns under the stubbed collaborators
RECURSIVE DocBefore(_, _)
DocBefore(i, d) ==
    IF i = 1 THEN d ELSE DocAfter(Dimensions[i - 1], DocBefore(i - 1, d))
SequentialResult(i, d, st) ==
    Analyze(Dimensions[i], DocBefore(i, d), st[Dimensions[i]][1], st[Dimensions[i]][2])
SequentialReport(d, st) ==
    BuildReport(DocBefore(5, d),
                [dim \in SeqRange(Dimensions) |->
                    SequentialResult(CHOOSE i \in 1..4 : Dimensions[i] = dim, d, st)],
                st["aggregate"][1])

\* -------------------------------- the structure analyzer on its own
\* StructureAnalyzer.analyze on pages with longer outlines: up to
\* MaxOutline headings over five levels, with and without a list
OutlineChoices ==
    {[level |-> l, text |-> "Setup guide"] : l \in {2, 3, 4, 6}}
        \cup {[level |-> 1, text |-> "Overview"], [level |-> 2, text |-> "Summary"]}

OutlineDocs ==
    {[TypicalDoc EXCEPT !.headings = h, !.lists = l] :
        h \in SeqsUpTo(OutlineChoices, MaxOutline),
        l \in {<<>>, TypicalDoc.lists}}

InitStructure ==
    /\ doc \in OutlineDocs
    /\ pc = "structure"
    /\ results = NoResults
    /\ twin = NoResults
    /\ llmLog = NoLog
    /\ report = Pending
    /\ doc0 = doc
    /\ stub = NoStub
    /\ first = Pending
    /\ attempts = <<>>
    /\ scraped = Pending

NextStructure == RunStructure

SpecStructure == InitStructure /\ [][NextStructure]_vars

\* --------------------------------------------------------------- scraper
\* scrape_url before analyze_document: doc holds the url asked for, attempts
\* logs each strategy tried with the response it met and what it returned,
\* scraped is what scrape_url returns
Strategies == <<"standard", "enhanced", "session">>

Urls == {"u", "v"}

\* len(content) of the pages a server answers with
ContentLengths == {0, 99, 100, 3600}

\* what a request comes to: requests.get raises, or the server answers with
\* a status; a page of status 200 has content of some length, and one of
\* the extraction methods may raise on it
Responses ==
    {[kind |-> "raises", msg |-> "timed out"]}
    \cup {[kind |-> "response", status_code |-> c, chars |-> 0, parses |-> TRUE] :
              c \in {403, 500}}
    \cup {[kind |-> "response", status_code |-> 200, chars |-> n, parses |-> b] :
              n \in ContentLengths, b \in BOOLEAN}

\* _extract_content: the structured record, refused below 100 characters
ExtractContent(response, url) ==
    IF ~response.parses THEN Raise("extraction failed")
    ELSE IF response.chars = 0 \/ response.chars < 100
    THEN [error |-> <<"Insufficient content extracted from the page">>]
    ELSE [url |-> url, chars |-> response.chars, scraped_at |-> "now"]

\* the error of a status other than 200, with the prefix of the strategy
StatusError(strategy, status_code) ==
    [error |-> <<CASE strategy = "standard" -> "HTTP"
                   [] strategy = "enhanced" -> "Enhanced HTTP"
                   [] strategy = "session" -> "Session HTTP",
                 status_code>>]

\* _try_standard_scraping, _try_enhanced_scraping, _try_session_scraping:
\* every exception inside becomes an error record
TryScraping(strategy, response, url) ==
    IF response.kind = "raises" THEN [error |-> <<response.msg>>]
    ELSE IF response.status_code = 200
    THEN LET scraped_data == ExtractContent(response, url)
         IN  IF Raised(scraped_data) THEN [error |-> <<scraped_data.raise>>]
             ELSE scraped_data
    ELSE StatusError(strategy, response.status_code)

\* scraped_data and 'error' not in scraped_data
Succeeded(scraped_data) ==
    DOMAIN scraped_data # {} /\ "error" \notin DOMAIN scraped_data

AllFailed ==
    [error |->
       <<"All scraping strategies failed - website may be blocking automated access">>]

\* the order that goes from the standard strategy straight to the session
NextStrategySkipsEnhanced(strategy) ==
    CASE strategy = "standard" -> "session"
      [] strategy = "enhanced" -> "session"
      [] strategy = "session" -> "failed"

\* the strategy scrape_url turns to when this one has failed
NextStrategy(strategy) ==
    CASE strategy = "standard" -> "enhanced"
      [] strategy = "enhanced" -> "session"
      [] strategy = "session" -> "failed"

InitScrape ==
    /\ doc \in {[url |-> u] : u \in Urls}
    /\ pc = "standard"
    /\ results = NoResults
    /\ twin = NoResults
    /\ llmLog = NoLog
    /\ report = Pending
    /\ doc0 = doc
    /\ stub = NoStub
    /\ first = Pending
    /\ attempts = <<>>
    /\ scraped = Pending

\* one strategy of scrape_url and the test after it: return its record, go
\* on to the next strategy, or return the error of all strategies failing
TryStrategy(strategy) ==
    /\ pc = strategy
    /\ \E response \in Responses :
          LET scraped_data == TryScraping(strategy, response, doc.url)
          IN  /\ attempts' = Append(attempts, [strategy |-> strategy,
                                               response |-> response,
                                               result |-> scraped_data])
              /\ IF Succeeded(scraped_data)
                 THEN /\ scraped' = scraped_data
                      /\ pc' = "returned"
                 ELSE IF NextStrategy(strategy) = "failed"
                 THEN /\ scraped' = AllFailed
                      /\ pc' = "returned"
                 ELSE /\ scraped' = scraped
                      /\ pc' = NextStrategy(strategy)
    /\ UNCHANGED <<doc, results, twin, llmLog, report, doc0, stub, first>>

TryStandard == TryStrategy("standard")
TryEnhanced == TryStrategy("enhanced")
TrySession == TryStrategy("session")

NextScrape ==
    \/ TryStandard
    \/ TryEnhanced
    \/ TrySession

SpecScrape == InitScrape /\ [][NextScrape]_vars

\* ---------------------------------------------------------- properties
DimSet == SeqRange(Dimensions)
Abs(x) == IF x >= 0 THEN x ELSE -x
Finished(result) == "pending" \notin DOMAIN result
IsFailure(result) == "error" \in DOMAIN result
IsNormal(result) == "summary" \in DOMAIN result
FullReport(rep) ==
    {"readability", "structure", "completeness", "style", "overall_score", "summary"}
        \subseteq DOMAIN rep
\* v is num / den rounded to the nearest integer
IsRounded(v, num, den) == 2 * Abs(den * v - num) <= den
ScoreSum(rep, dims) ==
    SumSeq([i \in 1..4 |-> IF Dimensions[i] \in dims THEN rep[Dimensions[i]].score ELSE 0])

CommentaryKey(dim) ==
    IF dim = "readability" THEN "marketer_analysis" ELSE "llm_analysis"
LLMFallback(dim) ==
    CASE dim = "readability" -> ReadabilityLLMFallback
      [] dim = "structure" -> StructureLLMFallback
      [] dim = "completeness" -> CompletenessLLMFallback
      [] dim = "style" -> StyleLLMFallback
FailureSuggestion(dim) ==
    CASE dim = "readability" -> ReadabilityFailureSuggestion
      [] dim = "structure" -> StructureFailureSuggestion
      [] dim = "completeness" -> CompletenessFailureSuggestion
      [] dim = "style" -> StyleFailureSuggestion

\* an exception is raised somewhere in the analyzer's pipeline on this page
PipelineRaises(dim, d) ==
    CASE dim = "readability" -> "sentence_count" \in d.tsFail
      [] dim = "structure" ->
             \/ (d.headings # <<>> /\ \A h \in SeqRange(d.headings) : h.text = "")
             \/ (d.paragraphs = <<>> /\ d.contentParas = <<>>)
      [] dim = "completeness" -> NoAlt \in SeqRange(d.images)
      [] dim = "style" -> d.chars > 0 /\ "flesch_reading_ease" \in d.tsFail

IsEmptyDoc(d) ==
    /\ d.contentType = "str" /\ d.chars = 0 /\ d.words = 0
    /\ d.headings = <<>> /\ d.paragraphs = <<>> /\ d.lists = <<>>
    /\ d.images = <<>> /\ d.links = <<>> /\ d.codeBlocks = <<>>

\* C1: the score of every analyzer result, normal or failure, lies in
\* [0, 10], the unclamped style score included.
C1_ScoreInRange ==
    \A dim \in DimSet :
        Finished(results[dim]) =>
            /\ HasScore(results[dim])
            /\ results[dim].score >= 0
            /\ results[dim].score <= 100

\* a style analysis that reaches the largest weighted sum, 9.1, on its
\* normal path
C1_Witness ==
    /\ IsNormal(results["style"])
    /\ results["style"].clarity_analysis.clarity_grade = 10
    /\ results["style"].score = 91

C3_FailureIsolated ==
    (pc = "done" /\ doc.contentType = "str") =>
        /\ FullReport(report)
        /\ \A dim \in DimSet :
              IF PipelineRaises(dim, doc)
              THEN /\ DOMAIN report[dim] = {"score", "error", "suggestions"}
                   /\ report[dim].score = 0
                   /\ report[dim].suggestions = <<FailureSuggestion(dim)>>
              ELSE IsNormal(report[dim]) /\ ~IsFailure(report[dim])

C3_Witness ==
    /\ pc = "done"
    /\ FullReport(report)
    /\ PipelineRaises("structure", doc)
    /\ IsFailure(report.structure)
    /\ \A dim \in DimSet \ {"structure"} : IsNormal(report[dim])

\* the result without its commentary field
WithoutCommentary(dim, result) ==
    [k \in DOMAIN result \ {CommentaryKey(dim)} |-> result[k]]

\* C4: an analyzer's result for the same page is the same whether its LLM
\* call returns text or raises, the commentary apart; when the call raises
\* the commentary is the analyzer's fallback string and the failure path is
\* not taken because of it.
C4_LLMOnlyCommentary ==
    \A dim \in DimSet :
        Finished(results[dim]) =>
            /\ Finished(twin[dim])
            /\ WithoutCommentary(dim, results[dim]) = WithoutCommentary(dim, twin[dim])
            /\ IsFailure(results[dim]) <=> IsFailure(twin[dim])
            /\ (llmLog[dim] = <<"raise">> /\ IsNormal(results[dim])) =>
                   /\ results[dim][CommentaryKey(dim)] = LLMFallback(dim)
                   /\ twin[dim][CommentaryKey(dim)] = LLMText
            /\ (llmLog[dim] = <<"text">> /\ IsNormal(results[dim])) =>
                   /\ results[dim][CommentaryKey(dim)] = LLMText
                   /\ twin[dim][CommentaryKey(dim)] = LLMFallback(dim)

C4_Witness ==
    /\ llmLog["style"] = <<"raise">>
    /\ IsNormal(results["style"])
    /\ results["style"].llm_analysis = StyleLLMFallback
    /\ results["style"].score = twin["style"].score
    /\ results["style"].score > 0

\* C5: the overall score is the mean of the scores of the results that carry
\* one, rounded to one decimal, and 0.0 when none does; it stays in [0, 10]
\* when the scores do.
C5_OverallIsMean ==
    (pc = "done" /\ FullReport(report)) =>
        LET present == {dim \in DimSet : HasScore(report[dim])}
            n == Cardinality(present)
        IN  /\ IF n = 0 THEN report.overall_score = 0
               ELSE IsRounded(report.overall_score, ScoreSum(report, present), n)
            /\ (\A dim \in present : report[dim].score \in 0..100)
                   => report.overall_score \in 0..100

C5_Witness ==
    /\ pc = "done"
    /\ FullReport(report)
    /\ ~HasScore(report.readability)
    /\ ~HasScore(report.style)
    /\ report.structure.score = 85
    /\ report.completeness.score = 60
    /\ report.overall_score \in {72, 73}

\* C6 as stated: a failed analyzer's dimension is skipped, the overall score
\* being the mean of the other dimensions only.
C6_FailedSkipped ==
    (pc = "done" /\ FullReport(report)) =>
        LET ok == {dim \in DimSet : ~IsFailure(report[dim])}
        IN  (ok # DimSet /\ ok # {}) =>
                IsRounded(report.overall_score, ScoreSum(report, ok), Cardinality(ok))

\* C6 amended: a failed analyzer's result carries score 0 and is averaged in
\* like any other: the overall score is the mean of all four scores.
C6_FailedCountsAsZero ==
    (pc = "done" /\ FullReport(report)) =>
        /\ \A dim \in DimSet :
              IsFailure(report[dim]) => (HasScore(report[dim]) /\ report[dim].score = 0)
        /\ \A dim \in DimSet : HasScore(report[dim])
        /\ IsRounded(report.overall_score, ScoreSum(report, DimSet), 4)

C6_Witness ==
    /\ pc = "done"
    /\ FullReport(report)
    /\ IsFailure(report.structure)
    /\ \A dim \in DimSet \ {"structure"} : IsNormal(report[dim]) /\ report[dim].score > 0
    /\ 3 * report.overall_score < ScoreSum(report, DimSet \ {"structure"}) - 3

\* the dimensions a list of the summary names
NamedIn(list, Text(_)) == {dim \in DimSet : \E k \in 1..Len(list) : list[k] = Text(dim)}
WeakIn(list) == {dim \in DimSet : \E k \in 1..Len(list) : list[k][2] = dim}

\* C7: a dimension is a strength iff its score is >= 7, a weakness (with its
\* improvement) iff its score is < 6, and an improvement without a weakness
\* iff 6 <= score < 7.
C7_SummaryBands ==
    (pc = "done" /\ FullReport(report)) =>
        \A dim \in DimSet :
            LET score == GetScore(report[dim])
                strength == dim \in NamedIn(report.summary.strengths, StrengthText)
                weakness == dim \in WeakIn(report.summary.weaknesses)
                improvement ==
                    dim \in NamedIn(report.summary.priority_improvements, ImprovementText)
            IN  /\ strength <=> score >= 70
                /\ weakness <=> score < 60
                /\ (weakness => improvement)
                /\ (improvement /\ ~weakness) <=> (score >= 60 /\ score < 70)

C7_Witness ==
    /\ pc = "done"
    /\ FullReport(report)
    /\ GetScore(report.readability) = 70
    /\ GetScore(report.structure) = 69
    /\ GetScore(report.completeness) = 60
    /\ GetScore(report.style) = 59
    /\ Len(report.summary.strengths) = 1
    /\ Len(report.summary.weaknesses) = 1
    /\ Len(report.summary.priority_improvements) = 3

\* C8: the recommendation follows the reported overall score alone:
\* Excellent iff >= 8, Good iff in [7, 8), Adequate iff in [6, 7), the
\* significant-improvements text iff < 6.
C8_RecommendationByOverall ==
    (pc = "done" /\ FullReport(report)) =>
        LET overall == report.overall_score
            rec == report.summary.recommendation
        IN  /\ rec = RecExcellent <=> overall >= 80
            /\ rec = RecGood <=> (overall >= 70 /\ overall < 80)
            /\ rec = RecAdequate <=> (overall >= 60 /\ overall < 70)
            /\ rec = RecPoor <=> overall < 60

C8_Witness ==
    /\ pc = "done"
    /\ FullReport(report)
    /\ report.overall_score = 70
    /\ report.summary.recommendation = RecGood

\* C9 as stated: on the page with empty content and empty sequences no
\* analyzer takes its exception path and each reports its metric breakdown
\* with zero counts and ratios.
C9_EmptyDocNoFailure ==
    (IsEmptyDoc(doc) /\ doc.tsFail = {}) =>
        /\ Finished(results["readability"]) =>
              /\ IsNormal(results["readability"])
              /\ results["readability"].basic_metrics.avg_sentence_length = 0
              /\ results["readability"].complexity_analysis.technical_term_density = 0
        /\ Finished(results["structure"]) =>
              /\ IsNormal(results["structure"])
              /\ results["structure"].heading_analysis.total_headings = 0
        /\ Finished(results["completeness"]) =>
              /\ IsNormal(results["completeness"])
              /\ results["completeness"].instruction_analysis.instruction_density[1] = 0
        /\ Finished(results["style"]) =>
              /\ IsNormal(results["style"])
              /\ results["style"].voice_analysis.total_sentences = 0
              /\ results["style"].voice_analysis.passive_voice_ratio = 0

\* C10 as stated: the empty page has overall score 0.0.
C10_EmptyDocOverallZero ==
    (pc = "done" /\ IsEmptyDoc(doc)) => report.overall_score = 0

\* C10 amended: on the empty page the overall score is the mean of the four
\* scores - structure 0 from its failure result, completeness 2.2, style
\* 5.0 and the readability score - so it lies in [1.8, 4.3] and is not 0.0.
C10_EmptyDocOverall ==
    (pc = "done" /\ IsEmptyDoc(doc)) =>
        /\ report.structure.score = 0
        /\ report.completeness.score = 22
        /\ report.style.score = 50
        /\ IsRounded(report.overall_score, report.readability.score + 72, 4)
        /\ report.overall_score >= 18
        /\ report.overall_score <= 43

C10_Witness ==
    /\ pc = "done"
    /\ IsEmptyDoc(doc)
    /\ report.readability.score = 100
    /\ report.overall_score = 43

\* C11: on the page with empty content and every sequence empty the
\* recommendation is the 'needs significant improvements' text, whatever the
\* readability score is.
C11_EmptyDocRecommendation ==
    (pc = "done" /\ IsEmptyDoc(doc)) =>
        /\ FullReport(report)
        /\ report.summary.recommendation = RecPoor

C11_Witness ==
    /\ pc = "done"
    /\ IsEmptyDoc(doc)
    /\ report.readability.score = 100
    /\ report.summary.recommendation = RecPoor
    /\ \E d \in Docs : IsEmptyDoc(d) /\ ReadabilityAnalyze(d, "text", TRUE).score = 0

\* the six indices: result key, textstat function, value textstat returns
IndexKeys ==
    {"flesch_reading_ease", "flesch_kincaid_grade", "gunning_fog",
     "coleman_liau", "automated_readability", "smog_index"}
IndexFunction(key) ==
    CASE key = "coleman_liau" -> "coleman_liau_index"
      [] key = "automated_readability" -> "automated_readability_index"
      [] OTHER -> key
IndexValue(key, d) ==
    CASE key = "flesch_reading_ease" -> d.flesch
      [] key = "flesch_kincaid_grade" -> d.grade
      [] key = "gunning_fog" -> d.fog
      [] key = "coleman_liau" -> d.coleman
      [] key = "automated_readability" -> d.ari
      [] key = "smog_index" -> d.smog

\* C12: the six readability indices fail independently: an index whose
\* computation raises is reported as 0 and every other index keeps its
\* computed value.
C12_IndicesFailIndependently ==
    (Finished(results["readability"]) /\ IsNormal(results["readability"])) =>
        \A key \in IndexKeys :
            results["readability"].readability_scores[key] =
                IF IndexFunction(key) \in doc.tsFail THEN 0 ELSE IndexValue(key, doc)

\* C13: during one analyze_document call each analyzer calls the LLM at most
\* once, exactly once when its result is a normal one, and never before it
\* has run; a call that raised is not repeated and its failure is the
\* fallback commentary of the result.
C13_OneLLMCall ==
    \A dim \in DimSet :
        /\ Len(llmLog[dim]) <= 1
        /\ ~Finished(results[dim]) => llmLog[dim] = <<>>
        /\ (Finished(results[dim]) /\ IsNormal(results[dim])) =>
              /\ Len(llmLog[dim]) = 1
              /\ llmLog[dim] = <<"raise">> =>
                    results[dim][CommentaryKey(dim)] = LLMFallback(dim)
              /\ llmLog[dim] = <<"text">> =>
                    results[dim][CommentaryKey(dim)] = LLMText

C13_Witness ==
    /\ pc = "done"
    /\ FullReport(report)
    /\ IsFailure(report.readability) /\ llmLog["readability"] = <<>>
    /\ IsFailure(report.structure) /\ llmLog["structure"] = <<"text">>
    /\ llmLog["style"] = <<"raise">>
    /\ report.style.llm_analysis = StyleLLMFallback

VoiceWithPassive(d, p, up) == AnalyzeVoiceTone([d EXCEPT !.passive = p], up)
ScoreWithVoice(va, r, up) ==
    CalculateStyleScore(va, r.clarity_analysis, r.action_analysis, r.consistency_analysis, up)

\* C16: with the sentences and the tone balance as they are, a larger
\* passive-voice count never gives a larger voice-quality bucket score
\* (Excellent 10, Good 8, Fair 6, Needs Improvement 4), nor a larger style
\* score when clarity, action and consistency are as they are.
C16_PassiveMonotone ==
    (pc = "aggregate" /\ IsNormal(results["style"])) =>
        LET r == results["style"]
        IN  \A p \in (doc.passive + 1)..(doc.sentences + 2) :
                LET more == VoiceWithPassive(doc, p, TRUE)
                IN  /\ more.tone_indicators = r.voice_analysis.tone_indicators
                    /\ more.total_sentences = r.voice_analysis.total_sentences
                    /\ VoiceScore(more.voice_quality) <= VoiceScore(r.voice_analysis.voice_quality)
                    /\ \A up \in BOOLEAN :
                          ScoreWithVoice(more, r, up) <= ScoreWithVoice(r.voice_analysis, r, up)
                    /\ \E up \in BOOLEAN : r.score = ScoreWithVoice(r.voice_analysis, r, up)

\* an Excellent voice that one more passive sentence takes down to Good,
\* and the style score with it
C16_Witness ==
    /\ pc = "aggregate"
    /\ IsNormal(results["style"])
    /\ results["style"].voice_analysis.voice_quality = "Excellent"
    /\ doc.passive = 3
    /\ VoiceWithPassive(doc, 4, TRUE).voice_quality = "Good"
    /\ ScoreWithVoice(VoiceWithPassive(doc, 4, TRUE), results["style"], TRUE)
          < results["style"].score
    /\ VoiceWithPassive(doc, 12, TRUE).voice_quality = "Needs Improvement"

\* technical-term density percentages, in hundredths
DensityValues == {0, 1, 33, 200, 300, 517, 1000, 3333, 6667, 10000}
WithDensity(ca, t) == [ca EXCEPT !.technical_term_density = t]

\* C17: with the Flesch reading ease and the grade level as they are, the
\* readability score does not go up when the technical-term density
\* percentage does.
C17_DensityMonotone ==
    (pc = "structure" /\ IsNormal(results["readability"])) =>
        LET r == results["readability"]
            rs == r.readability_scores
            ca == r.complexity_analysis
        IN  /\ \E up \in BOOLEAN : r.score = CalculateReadabilityScore(rs, ca, up)
            /\ \A t \in DensityValues, up1 \in BOOLEAN, up2 \in BOOLEAN :
                  t > ca.technical_term_density =>
                      CalculateReadabilityScore(rs, WithDensity(ca, t), up2)
                          <= CalculateReadabilityScore(rs, ca, up1)

\* a score strictly between the clamps that a denser page loses part of
C17_Witness ==
    /\ pc = "structure"
    /\ IsNormal(results["readability"])
    /\ results["readability"].complexity_analysis.technical_term_density = 200
    /\ results["readability"].score = 52
    /\ CalculateReadabilityScore(results["readability"].readability_scores,
             WithDensity(results["readability"].complexity_analysis, 517), TRUE) = 42
    /\ CalculateReadabilityScore(results["readability"].readability_scores,
             WithDensity(results["readability"].complexity_analysis, 6667), TRUE) = 0

\* the pairs of used heading levels, next to each other among the used
\* levels, that are more than 1 apart
LevelsUsed(headings) == {headings[i].level : i \in 1..Len(headings)}
SkippingPairs(used) ==
    {pair \in used \X used :
        /\ pair[2] - pair[1] > 1
        /\ ~\E l \in used : pair[1] < l /\ l < pair[2]}

\* C18: heading analysis reports exactly one gap for each pair of adjacent
\* distinct used levels more than 1 apart, and max_gap is the largest such
\* difference, 0 when there is none, whatever the order and the repetition
\* of the headings; levels 1, 3, 5 give 2 gaps and max_gap 2.
C18_HeadingGaps ==
    (Finished(results["structure"]) /\ IsNormal(results["structure"])) =>
        LET ha == results["structure"].heading_analysis
            pairs == SkippingPairs(LevelsUsed(doc.headings))
        IN  /\ doc.headings = <<>> => ha.max_gap = 0
            /\ doc.headings # <<>> =>
                  /\ Len(ha.gaps) = Cardinality(pairs)
                  /\ SeqRange(ha.gaps) = pairs
                  /\ \A pair \in pairs : ha.max_gap >= pair[2] - pair[1]
                  /\ pairs # {} => \E pair \in pairs : ha.max_gap = pair[2] - pair[1]
                  /\ pairs = {} => ha.max_gap = 0
            /\ LevelsUsed(doc.headings) = {1, 3, 5} =>
                  (Len(ha.gaps) = 2 /\ ha.max_gap = 2)

C18_Witness ==
    /\ Finished(results["structure"])
    /\ IsNormal(results["structure"])
    /\ Levels(doc.headings) = <<1, 3, 5>>
    /\ results["structure"].heading_analysis.gaps = <<<<1, 3>>, <<3, 5>>>>
    /\ results["structure"].heading_analysis.max_gap = 2

\* the place in the fixed check sequence of the check a readability
\* suggestion comes from
ReadabilityCheckOf(msg) ==
    CASE msg \in {"sentence_length_gt_25", "sentence_length_gt_20"} -> 1
      [] msg \in {"flesch_lt_30", "flesch_lt_50", "flesch_lt_60"} -> 2
      [] msg \in {"grade_gt_12", "grade_gt_10"} -> 3
      [] msg \in {"tech_density_gt_5", "tech_density_gt_3"} -> 4
      [] msg = "jargon_gt_10" -> 5
      [] msg = "syllables_gt_1_7" -> 6
      [] OTHER -> 0

\* C19: the suggestions of an analyzer do not depend on the LLM outcome,
\* and the readability suggestions come in the order sentence length,
\* Flesch score, grade level, technical density, jargon count, syllables
\* per word, with at most one message from each check.
C19_SuggestionOrder ==
    /\ \A dim \in DimSet :
          (Finished(results[dim]) /\ IsNormal(results[dim])) =>
              results[dim].suggestions = twin[dim].suggestions
    /\ (Finished(results["readability"]) /\ IsNormal(results["readability"])) =>
          LET s == results["readability"].suggestions
          IN  /\ \A k \in 1..Len(s) : ReadabilityCheckOf(s[k]) \in 1..6
              /\ \A k \in 1..(Len(s) - 1) :
                    ReadabilityCheckOf(s[k]) < ReadabilityCheckOf(s[k + 1])

C19_Witness ==
    /\ Finished(results["readability"])
    /\ results["readability"].suggestions =
          <<"sentence_length_gt_25", "flesch_lt_50", "grade_gt_12",
            "tech_density_gt_5", "jargon_gt_10", "syllables_gt_1_7">>

\* C20: the complexity level follows the technical-term density percentage
\* reported as technical_term_density (hundredths here) and the jargon
\* count: Very High above 5 percent or 20, High above 3 percent or 10,
\* Moderate above 1 percent or 5, else Low.
C20_ComplexityByPercent ==
    (Finished(results["readability"]) /\ IsNormal(results["readability"])) =>
        LET ca == results["readability"].complexity_analysis
            density == ca.technical_term_density
            jargon == ca.jargon_count
        IN  ca.complexity_level =
                IF density > 500 \/ jargon > 20 THEN "Very High"
                ELSE IF density > 300 \/ jargon > 10 THEN "High"
                ELSE IF density > 100 \/ jargon > 5 THEN "Moderate"
                ELSE "Low"

\* the hierarchy score the formula gives for a set of used levels, tenths
HierarchyFormula(used) ==
    Clamp(0, 100, 50 + (IF 1 \in used THEN 20 ELSE 0)
                     - 15 * Cardinality(SkippingPairs(used))
                     + (IF 2 <= Cardinality(used) /\ Cardinality(used) <= 4 THEN 20 ELSE 0)
                     - (IF Cardinality(used) > 4 THEN 10 ELSE 0))

\* C21 as stated: for every heading sequence, the empty one included, the
\* hierarchy score is clamp[0,10] of 5, plus 2 if level 1 is present, minus
\* 1.5 per gap, plus 2 for 2 to 4 distinct levels, minus 1 for more than 4.
C21_HierarchyScoreEverySequence ==
    (Finished(results["structure"]) /\ IsNormal(results["structure"])) =>
        results["structure"].heading_analysis.hierarchy_score
            = HierarchyFormula(LevelsUsed(doc.headings))

\* C21 amended: the formula gives the hierarchy score of every heading
\* sequence that is not empty; without headings the score is 0.
C21_HierarchyScore ==
    (Finished(results["structure"]) /\ IsNormal(results["structure"])) =>
        results["structure"].heading_analysis.hierarchy_score
            = IF doc.headings = <<>> THEN 0
              ELSE HierarchyFormula(LevelsUsed(doc.headings))

\* five distinct levels with one gap: 5 + 2 - 1.5 - 1 = 4.5
C21_Witness ==
    /\ Finished(results["structure"])
    /\ IsNormal(results["structure"])
    /\ LevelsUsed(doc.headings) = {1, 2, 3, 4, 6}
    /\ results["structure"].heading_analysis.hierarchy_score = 45

\* the paragraphs the analysis works on: the scraped ones, else the content
\* blocks
ParagraphsAnalyzed(d) == IF d.paragraphs = <<>> THEN d.contentParas ELSE d.paragraphs

\* C22: every paragraph is in exactly one of the buckets short (< 20
\* words), medium (20 to 100), long (over 100 up to 200), very long
\* (> 200): the four counts sum to total_paragraphs and a paragraph of more
\* than 200 words is not counted as long.
C22_ParagraphBuckets ==
    (Finished(results["structure"]) /\ IsNormal(results["structure"])) =>
        LET pa == results["structure"].paragraph_analysis
            paras == ParagraphsAnalyzed(doc)
            dist == pa.length_distribution
        IN  pa.total_paragraphs > 0 =>
                /\ dist.short + dist.medium + dist.long + dist.very_long = pa.total_paragraphs
                /\ dist.long = Cardinality({i \in 1..Len(paras) : 100 < paras[i] /\ paras[i] <= 200})
                /\ dist.very_long = Cardinality({i \in 1..Len(paras) : paras[i] > 200})

\* heading texts that contain an introduction term, or a conclusion term,
\* when lower-cased
NamesIntroduction(text) == text \in {"Overview"}
NamesConclusion(text) == text \in {"Summary"}

\* C23: the organization score is clamp[0,10] of 5, + 1.5 for a detected
\* introduction, + 1.5 for a detected conclusion, + 1 for any list, + 1 for
\* at least 3 headings, + 0.5 for at least 5; an introduction is detected
\* iff one of the first three headings names one, so a first heading
\* 'Overview' gives has_introduction and the bonus.
C23_OrganizationScore ==
    (Finished(results["structure"]) /\ IsNormal(results["structure"])) =>
        LET oa == results["structure"].organization_analysis
            h == doc.headings
            intro == \E i \in 1..Len(h) : i <= 3 /\ NamesIntroduction(h[i].text)
            concl == \E i \in 1..Len(h) : i > Len(h) - 3 /\ NamesConclusion(h[i].text)
            sum == 50 + (IF intro THEN 15 ELSE 0) + (IF concl THEN 15 ELSE 0)
                      + (IF Len(doc.lists) > 0 THEN 10 ELSE 0)
                      + (IF Len(h) >= 3 THEN 10 ELSE 0)
                      + (IF Len(h) >= 5 THEN 5 ELSE 0)
        IN  /\ oa.has_introduction = intro
            /\ oa.has_conclusion = concl
            /\ oa.organization_score = Clamp(0, 100, sum)
            /\ (h # <<>> /\ h[1].text = "Overview") =>
                  (oa.has_introduction /\ oa.organization_score >= 65)

\* five headings led by 'Overview', a conclusion and a list: 10.5 clamped
C23_Witness ==
    /\ Finished(results["structure"])
    /\ IsNormal(results["structure"])
    /\ Len(doc.headings) = 5
    /\ doc.headings[1].text = "Overview"
    /\ doc.lists # <<>>
    /\ results["structure"].organization_analysis.has_introduction
    /\ results["structure"].organization_analysis.has_conclusion
    /\ results["structure"].organization_analysis.organization_score = 100

\* how many times a message of the set occurs in a suggestion list
Occurrences(list, msgs) == Cardinality({k \in 1..Len(list) : list[k] \in msgs})

\* C24: the completeness suggestions hold one message for each unmet
\* condition: a page with instructional content and no code blocks gets
\* one missing-code-examples message, not two.
C24_OneMessagePerCondition ==
    (Finished(results["completeness"]) /\ IsNormal(results["completeness"])) =>
        LET r == results["completeness"]
            technical == SeemsTechnicalContent(r.instruction_analysis)
        IN  /\ Occurrences(r.suggestions, {"add_code_examples", "include_code_examples"})
                  = IF doc.codeBlocks = <<>> /\ technical THEN 1 ELSE 0
            /\ \A k \in 1..Len(r.suggestions) :
                  Occurrences(r.suggestions, {r.suggestions[k]}) = 1

\* C25 as stated: the add-screenshots suggestion is appended whenever the
\* page has fewer than 2 images, for no image and for exactly one.
C25_ScreenshotsBelowTwoImages ==
    (Finished(results["completeness"]) /\ IsNormal(results["completeness"])) =>
        (Len(doc.images) < 2 =>
            Occurrences(results["completeness"].suggestions, {"add_screenshots"}) = 1)

\* C25 amended: the add-screenshots suggestion is appended exactly when the
\* page has no image at all; one image is enough to leave it out.
C25_ScreenshotsWithoutImages ==
    (Finished(results["completeness"]) /\ IsNormal(results["completeness"])) =>
        Occurrences(results["completeness"].suggestions, {"add_screenshots"})
            = IF Len(doc.images) = 0 THEN 1 ELSE 0

C25_Witness ==
    /\ Finished(results["completeness"])
    /\ IsNormal(results["completeness"])
    /\ Len(doc.images) = 1
    /\ results["completeness"].support_analysis.visual_support.has_images
    /\ Occurrences(results["completeness"].suggestions, {"add_screenshots"}) = 0

\* C26: every retained sentence is counted once as declarative,
\* interrogative, imperative or exclamatory, so the four counts sum to
\* total_sentences; a sentence ending with '?' in the content is counted
\* as interrogative and one ending with '!' as exclamatory.
C26_SentenceTypes ==
    (Finished(results["style"]) /\ IsNormal(results["style"])) =>
        LET va == results["style"].voice_analysis
            st == va.sentence_types
        IN  /\ st.declarative + st.interrogative + st.imperative + st.exclamatory
                  = va.total_sentences
            /\ st.interrogative = doc.questions
            /\ st.exclamatory = doc.exclamations


\* C27: when the aggregator meets a result it cannot read, the overall score
\* is 0.0, the summary's recommendation is the fallback string, and the
\* report still carries the four dimension results as they were produced
C27_AggregationFailureCaught ==
    (pc = "done" /\ \E dim \in DimSet : IsNone(results[dim]))
        => /\ ~Raised(report)
           /\ "error" \notin DOMAIN report
           /\ report.overall_score = 0
           /\ report.summary.recommendation = RecUnable
           /\ \A dim \in DimSet : report[dim] = results[dim]

C27_Witness ==
    /\ pc = "done"
    /\ IsNone(results["structure"])
    /\ HasScore(results["readability"]) /\ results["readability"].score = 85
    /\ report.summary.strengths = <<StrengthText("readability")>>
    /\ report.overall_score = 0

\* C28: heading analysis reports has_gaps exactly when the used levels skip
\* a level (max_gap >= 2), and only then is the suggestion to fix the
\* hierarchy gaps produced
C28_GapsFlagMatchesGaps ==
    (Finished(results["structure"]) /\ IsNormal(results["structure"])) =>
        LET ha == results["structure"].heading_analysis
            suggestions == results["structure"].suggestions
        IN  /\ ha.has_gaps <=> ha.max_gap >= 2
            /\ ha.has_gaps <=> SkippingPairs(LevelsUsed(doc.headings)) # {}
            /\ Occurrences(suggestions, {"fix_hierarchy_gaps"}) > 0
                   => SkippingPairs(LevelsUsed(doc.headings)) # {}

\* the entries of the dimensions in dims, in the order of Dimensions
InOrder(dims, Entry(_)) ==
    LET idx == SortedSeq({i \in 1..4 : Dimensions[i] \in dims})
    IN  [k \in 1..Len(idx) |-> Entry(Dimensions[idx[k]])]

\* C29: in a summary built without an exception every dimension is in
\* exactly one of strengths and priority_improvements (their lengths sum to
\* 4), the weaknesses are no more than the improvements, no dimension is both
\* a strength and a weakness, and every list follows the order readability,
\* structure, completeness, style
C29_SummaryPartition ==
    (pc = "done" /\ FullReport(report) /\ report.summary.recommendation # RecUnable) =>
        LET summary == report.summary
            strong == NamedIn(summary.strengths, StrengthText)
            improve == NamedIn(summary.priority_improvements, ImprovementText)
            weak == WeakIn(summary.weaknesses)
        IN  /\ Len(summary.strengths) + Len(summary.priority_improvements) = 4
            /\ strong \cup improve = DimSet
            /\ strong \cap improve = {}
            /\ Len(summary.weaknesses) <= Len(summary.priority_improvements)
            /\ strong \cap weak = {}
            /\ summary.strengths = InOrder(strong, StrengthText)
            /\ summary.priority_improvements = InOrder(improve, ImprovementText)
            /\ summary.weaknesses
                   = InOrder(weak, LAMBDA dim : <<"Poor", dim, GetScore(report[dim])>>)

C29_Witness ==
    /\ pc = "done"
    /\ FullReport(report)
    /\ report.summary.strengths
           = <<StrengthText("readability"), StrengthText("completeness")>>
    /\ report.summary.priority_improvements
           = <<ImprovementText("structure"), ImprovementText("style")>>
    /\ report.summary.weaknesses = <<<<"Poor", "structure", 22>>>>
    /\ GetScore(report.style) = 69

\* C30: scrape_url tries standard, enhanced, session in that order, a
\* later strategy only after every earlier one failed; it returns the record
\* of the first strategy that succeeds, the error of all strategies failing
\* only after three failures, never raises, and a record without an error
\* has content of at least 100 characters
C30_StrategyOrder ==
    /\ Len(attempts) <= 3
    /\ \A k \in 1..Len(attempts) : attempts[k].strategy = Strategies[k]
    /\ \A k \in 1..Len(attempts) : k < Len(attempts) => ~Succeeded(attempts[k].result)
    /\ (pc \in SeqRange(Strategies) /\ attempts # <<>>)
           => ~Succeeded(attempts[Len(attempts)].result)
    /\ pc = "returned" =>
           /\ ~Raised(scraped)
           /\ attempts # <<>>
           /\ IF "error" \in DOMAIN scraped
              THEN /\ scraped = AllFailed
                   /\ Len(attempts) = 3
                   /\ \A k \in 1..3 : ~Succeeded(attempts[k].result)
              ELSE /\ Succeeded(attempts[Len(attempts)].result)
                   /\ scraped = attempts[Len(attempts)].result
                   /\ scraped.chars >= 100

C30_Witness ==
    /\ pc = "returned"
    /\ Len(attempts) = 2
    /\ attempts[1].result = StatusError("standard", 403)
    /\ attempts[2].strategy = "enhanced"
    /\ scraped = [url |-> "v", chars |-> 100, scraped_at |-> "now"]

====
